---- MODULE Spec2Model ----
(***************************************************************************)
(* A model of the MedDSL rule engine: the boolean expression language of   *)
(* mddsl/dsl_parser.py (Tokenizer, Pratt Parser, AST evaluation) and the   *)
(* rule-graph interpreter of mddsl/interpreter.py (execute).               *)
(*                                                                         *)
(* Conventions.                                                            *)
(*  - A Python str that the code scans character by character (an         *)
(*    expression source, a field path, a string value of the case) is a    *)
(*    sequence of one-character strings.  A message built by an f-string   *)
(*    is the sequence of its pieces: every literal piece is one element,   *)
(*    every interpolated source text contributes its characters.           *)
(*  - A Python dict is a function whose DOMAIN is its key set, so that     *)
(*    `"k" in d` is  "k" \in DOMAIN d.                                      *)
(*  - A call that may raise returns a record with field exc: "none" with   *)
(*    the result, or the exception class with its message.                 *)
(***************************************************************************)
EXTENDS Integers, Sequences, FiniteSets, TLC

(***************************************************************************)
(* Case values: None, bool, int, float, str, dict.                         *)
(* A float is the exact decimal n / d (d a power of ten).                  *)
(***************************************************************************)
PyNone == [k |-> "null"]
PyBool(b) == [k |-> "bool", b |-> b]
PyInt(n) == [k |-> "int", n |-> n]
PyFloat(n, d) == [k |-> "float", n |-> n, d |-> d]
PyStr(s) == [k |-> "str", s |-> s]
PyDict(m) == [k |-> "dict", m |-> m]

Ok(v) == [exc |-> "none", val |-> v]
Raise(cls, msg) == [exc |-> cls, msg |-> msg]

\* Exception propagation: a raised r is passed up unchanged, otherwise the
\* computation goes on with r.
Bind(r, Then(_)) == IF r.exc # "none" THEN r ELSE Then(r)

(***************************************************************************)
(* Characters: str.isalpha, str.isdigit, str.isspace, str.isalnum over the *)
(* alphabet the model's sources are written in.                            *)
(***************************************************************************)
LowerCase == <<"a", "b", "c", "d", "e", "f", "g", "h", "i", "j", "k", "l", "m",
               "n", "o", "p", "q", "r", "s", "t", "u", "v", "w", "x", "y", "z">>
Letters == {LowerCase[i] : i \in 1..Len(LowerCase)}
Digits == {"0", "1", "2", "3", "4", "5", "6", "7", "8", "9"}
Spaces == {" ", "\t"}

isalpha(c) == c \in Letters
isdigit(c) == c \in Digits
isspace(c) == c \in Spaces
isalnum(c) == isalpha(c) \/ isdigit(c)

DigitVal(c) ==
    CASE c = "0" -> 0 [] c = "1" -> 1 [] c = "2" -> 2 [] c = "3" -> 3
      [] c = "4" -> 4 [] c = "5" -> 5 [] c = "6" -> 6 [] c = "7" -> 7
      [] c = "8" -> 8 [] c = "9" -> 9

\* The code point order of the alphabet, as str comparison uses it.
Ord(c) ==
    CASE c = "\t" -> 9 [] c = " " -> 32 [] c = "!" -> 33 [] c = "'" -> 39
      [] c = "(" -> 40 [] c = ")" -> 41 [] c = "." -> 46
      [] c \in Digits -> 48 + DigitVal(c)
      [] c = "<" -> 60 [] c = "=" -> 61 [] c = ">" -> 62 [] c = "_" -> 95
      [] c \in Letters -> 96 + (CHOOSE i \in 1..Len(LowerCase) : LowerCase[i] = c)
      [] OTHER -> 127

\* The Python str of a character sequence (used as a dict key).
RECURSIVE Join(_)
Join(cs) == IF cs = <<>> THEN "" ELSE Head(cs) \o Join(Tail(cs))

\* text[a:b] with Python's clamping of slice bounds (0-based, b exclusive).
Slice(text, a, b) ==
    LET hi == IF b > Len(text) THEN Len(text) ELSE b
    IN  IF a >= hi THEN <<>> ELSE SubSeq(text, a + 1, hi)

(***************************************************************************)
(* Tokenizer (dsl_parser.py).  Positions are 0-based as in the source;     *)
(* text[pos] is the model's text[pos + 1].                                 *)
(***************************************************************************)
Token(type, value, position) ==
    [type |-> type, value |-> value, position |-> position]

At(text, pos) == text[pos + 1]

RECURSIVE skip_whitespace(_, _)
skip_whitespace(text, pos) ==
    IF pos < Len(text) /\ isspace(At(text, pos))
    THEN skip_whitespace(text, pos + 1)
    ELSE pos

\* A scanned token and the position after it.
Scanned(token, pos) == [exc |-> "none", token |-> token, pos |-> pos]

parse_comparison(text, pos) ==
    LET two == Slice(text, pos, pos + 2)
    IN  IF two = <<"=", "=">> THEN Scanned(Token("==", PyNone, pos), pos + 2)
        ELSE IF two = <<"!", "=">> THEN Scanned(Token("!=", PyNone, pos), pos + 2)
        ELSE IF two = <<">", "=">> THEN Scanned(Token(">=", PyNone, pos), pos + 2)
        ELSE IF two = <<"<", "=">> THEN Scanned(Token("<=", PyNone, pos), pos + 2)
        ELSE IF At(text, pos) = ">" THEN Scanned(Token(">", PyNone, pos), pos + 1)
        ELSE IF At(text, pos) = "<" THEN Scanned(Token("<", PyNone, pos), pos + 1)
        ELSE Raise("ParseError",
                   <<"Invalid operator starting with ", At(text, pos)>>)

\* The end of the run of characters satisfying the loop condition of
\* parse_identifier.
RECURSIVE IdentifierEnd(_, _)
IdentifierEnd(text, pos) ==
    IF pos < Len(text) /\ (isalnum(At(text, pos)) \/ At(text, pos) = "_")
    THEN IdentifierEnd(text, pos + 1)
    ELSE pos

IdentifierToken(value, pos, end) ==
    IF value = <<"t", "r", "u", "e">>
    THEN Scanned(Token("true", PyBool(TRUE), pos), end)
    ELSE IF value = <<"f", "a", "l", "s", "e">>
    THEN Scanned(Token("false", PyBool(FALSE), pos), end)
    ELSE IF value = <<"n", "u", "l", "l">>
    THEN Scanned(Token("null", PyNone, pos), end)
    ELSE IF value = <<"a", "n", "d">>
    THEN Scanned(Token("and", PyNone, pos), end)
    ELSE IF value = <<"o", "r">>
    THEN Scanned(Token("or", PyNone, pos), end)
    ELSE IF value = <<"n", "o", "t">>
    THEN Scanned(Token("not", PyNone, pos), end)
    ELSE Scanned(Token("identifier", PyStr(value), pos), end)

parse_identifier(text, pos) ==
    IdentifierToken(Slice(text, pos, IdentifierEnd(text, pos)), pos,
                    IdentifierEnd(text, pos))

\* The end of the run of digits and dots scanned by parse_number.
RECURSIVE NumberEnd(_, _)
NumberEnd(text, pos) ==
    IF pos < Len(text) /\ (isdigit(At(text, pos)) \/ At(text, pos) = ".")
    THEN NumberEnd(text, pos + 1)
    ELSE pos

\* int(value) of a digit string.
RECURSIVE IntOf(_)
IntOf(ds) ==
    IF ds = <<>> THEN 0
    ELSE 10 * IntOf(SubSeq(ds, 1, Len(ds) - 1)) + DigitVal(ds[Len(ds)])

RECURSIVE Pow10(_)
Pow10(n) == IF n = 0 THEN 1 ELSE 10 * Pow10(n - 1)

\* float(value) of a string of digits and dots that starts with a digit:
\* a ValueError unless it holds exactly one dot.
FloatOf(value) ==
    LET dots == {i \in 1..Len(value) : value[i] = "."}
    IN  IF Cardinality(dots) # 1 THEN Raise("ValueError", <<>>)
        ELSE LET i == CHOOSE j \in dots : TRUE
                 whole == SubSeq(value, 1, i - 1)
                 frac == SubSeq(value, i + 1, Len(value))
             IN  Ok(PyFloat(IntOf(whole \o frac), Pow10(Len(frac))))

NumberToken(value, pos, end) ==
    IF \E i \in 1..Len(value) : value[i] = "."
    THEN IF FloatOf(value).exc = "none"
         THEN Scanned(Token("number", FloatOf(value).val, pos), end)
         ELSE Raise("ParseError", <<"Invalid number: ">> \o value)
    ELSE Scanned(Token("number", PyInt(IntOf(value)), pos), end)

parse_number(text, pos) ==
    NumberToken(Slice(text, pos, NumberEnd(text, pos)), pos, NumberEnd(text, pos))

next_token(text, pos) ==
    LET char == At(text, pos)
    IN  IF char = "(" THEN Scanned(Token("(", PyNone, pos), pos + 1)
        ELSE IF char = ")" THEN Scanned(Token(")", PyNone, pos), pos + 1)
        ELSE IF char = "." THEN Scanned(Token(".", PyNone, pos), pos + 1)
        ELSE IF char \in {"=", "!", ">", "<"} THEN parse_comparison(text, pos)
        ELSE IF isalpha(char) THEN parse_identifier(text, pos)
        ELSE IF isdigit(char) THEN parse_number(text, pos)
        ELSE Raise("ParseError", <<"Unexpected character: ", char>>)

\* The while loop of tokenize from position pos on.
RECURSIVE TokenizeFrom(_, _, _)
TokenizeAt(text, p, tokens) ==
    IF p >= Len(text)
    THEN Ok(Append(tokens, Token("eof", PyNone, p)))
    ELSE Bind(next_token(text, p),
              LAMBDA t : TokenizeFrom(text, t.pos, Append(tokens, t.token)))

TokenizeFrom(text, pos, tokens) ==
    IF pos < Len(text)
    THEN TokenizeAt(text, skip_whitespace(text, pos), tokens)
    ELSE Ok(Append(tokens, Token("eof", PyNone, pos)))

tokenize(text) == TokenizeFrom(text, 0, <<>>)

(***************************************************************************)
(* Pratt parser (dsl_parser.py, class Parser).  The parser's state is the  *)
(* 0-based index pos into tokens; self.current is always tokens[pos].      *)
(***************************************************************************)
BooleanNode(value) == [node |-> "Boolean", value |-> value]
NullNode == [node |-> "Null"]
NumberNode(value) == [node |-> "Number", value |-> value]
FieldNode(path) == [node |-> "Field", path |-> path]
NotNode(expr) == [node |-> "Not", expr |-> expr]
AndNode(left, right) == [node |-> "And", left |-> left, right |-> right]
OrNode(left, right) == [node |-> "Or", left |-> left, right |-> right]
ComparisonNode(left, operator, right) ==
    [node |-> "Comparison", left |-> left, operator |-> operator, right |-> right]

ComparisonOps == {"==", "!=", ">=", ">", "<=", "<"}

\* get_precedence with the entries of AND and OR exchanged.
get_precedence_or_above_and(token_type) ==
    CASE token_type = "or" -> 2
      [] token_type = "and" -> 1
      [] token_type \in ComparisonOps -> 3
      [] token_type = "not" -> 4
      [] OTHER -> 0

get_precedence(token_type) ==
    CASE token_type = "or" -> 1
      [] token_type = "and" -> 2
      [] token_type \in ComparisonOps -> 3
      [] token_type = "not" -> 4
      [] OTHER -> 0

Current(tokens, pos) == tokens[pos + 1]

advance(tokens, pos) == IF pos < Len(tokens) - 1 THEN pos + 1 ELSE pos

\* A parsed subtree and the parser position after it.
Parsed(ast, pos) == [exc |-> "none", ast |-> ast, pos |-> pos]

expect(tokens, pos, token_type) ==
    IF Current(tokens, pos).type = token_type
    THEN [exc |-> "none", pos |-> advance(tokens, pos)]
    ELSE Raise("ParseError",
               <<"Expected ", token_type, ", got ", Current(tokens, pos).type>>)

RECURSIVE parse_expression(_, _, _)
RECURSIVE InfixLoop(_, _, _, _)
RECURSIVE parse_prefix(_, _)
RECURSIVE parse_infix(_, _, _, _)

parse_expression(tokens, pos, precedence) ==
    Bind(parse_prefix(tokens, pos),
         LAMBDA l : InfixLoop(tokens, l.pos, l.ast, precedence))

\* The while loop of parse_expression.
InfixLoop(tokens, pos, left, precedence) ==
    IF precedence < get_precedence(Current(tokens, pos).type)
    THEN Bind(parse_infix(tokens, pos, left, Current(tokens, pos).type),
              LAMBDA r : InfixLoop(tokens, r.pos, r.ast, precedence))
    ELSE Parsed(left, pos)

parse_prefix(tokens, pos) ==
    LET token == Current(tokens, pos)
        nxt == advance(tokens, pos)
    IN  CASE token.type = "true" -> Parsed(BooleanNode(TRUE), nxt)
          [] token.type = "false" -> Parsed(BooleanNode(FALSE), nxt)
          [] token.type = "null" -> Parsed(NullNode, nxt)
          [] token.type = "number" -> Parsed(NumberNode(token.value), nxt)
          [] token.type = "identifier" -> Parsed(FieldNode(token.value.s), nxt)
          [] token.type = "not" ->
                Bind(parse_expression(tokens, nxt, get_precedence("not")),
                     LAMBDA e : Parsed(NotNode(e.ast), e.pos))
          [] token.type = "(" ->
                Bind(parse_expression(tokens, nxt, 0),
                     LAMBDA e : Bind(expect(tokens, e.pos, ")"),
                                     LAMBDA c : Parsed(e.ast, c.pos)))
          [] OTHER -> Raise("ParseError", <<"Unexpected token: ", token.type>>)

parse_infix(tokens, pos, left, token_type) ==
    IF token_type \in ComparisonOps
    THEN Bind(parse_expression(tokens, advance(tokens, pos),
                               get_precedence(token_type)),
              LAMBDA r : Parsed(ComparisonNode(left, token_type, r.ast), r.pos))
    ELSE IF token_type = "and"
    THEN Bind(parse_expression(tokens, advance(tokens, pos),
                               get_precedence("and")),
              LAMBDA r : Parsed(AndNode(left, r.ast), r.pos))
    ELSE IF token_type = "or"
    THEN Bind(parse_expression(tokens, advance(tokens, pos),
                               get_precedence("or")),
              LAMBDA r : Parsed(OrNode(left, r.ast), r.pos))
    ELSE Raise("ParseError", <<"Unexpected infix operator: ", token_type>>)

\* parse without its test for a token after the top-level expression.
ExpectEof_skipped(tokens, a) == [exc |-> "none", ast |-> a.ast]

\* The test of parse after the top-level expression.
ExpectEof(tokens, a) ==
    IF Current(tokens, a.pos).type # "eof"
    THEN Raise("ParseError", <<"Unexpected token after expression: ",
                               Current(tokens, a.pos).type>>)
    ELSE [exc |-> "none", ast |-> a.ast]

parse(expr) ==
    Bind(tokenize(expr),
         LAMBDA t : Bind(parse_expression(t.val, 0, 0),
                         LAMBDA a : ExpectEof(t.val, a)))

(***************************************************************************)
(* Python's value semantics as the evaluator relies on them: bool(),       *)
(* == and the ordering operators of None, bool, int, float, str, dict.     *)
(***************************************************************************)
IsNumber(v) == v.k \in {"bool", "int", "float"}

\* A bool is the int 1 or 0; every number is the fraction Numer / Denom.
Numer(v) == IF v.k = "bool" THEN (IF v.b THEN 1 ELSE 0) ELSE v.n
Denom(v) == IF v.k = "float" THEN v.d ELSE 1

\* bool(v)
Truthy(v) ==
    CASE v.k = "null" -> FALSE
      [] v.k = "bool" -> v.b
      [] v.k \in {"int", "float"} -> v.n # 0
      [] v.k = "str" -> v.s # <<>>
      [] v.k = "dict" -> DOMAIN v.m # {}

TypeName(v) == IF v.k = "null" THEN "NoneType" ELSE v.k

\* a == b
RECURSIVE PyEq(_, _)
PyEq(a, b) ==
    IF IsNumber(a) /\ IsNumber(b)
    THEN Numer(a) * Denom(b) = Numer(b) * Denom(a)
    ELSE IF a.k # b.k THEN FALSE
    ELSE CASE a.k = "null" -> TRUE
           [] a.k = "str" -> a.s = b.s
           [] a.k = "dict" ->
                /\ DOMAIN a.m = DOMAIN b.m
                /\ \A key \in DOMAIN a.m : PyEq(a.m[key], b.m[key])

\* s < t for two str values (code point order, a proper prefix is smaller).
RECURSIVE StrLt(_, _)
StrLt(s, t) ==
    IF t = <<>> THEN FALSE
    ELSE IF s = <<>> THEN TRUE
    ELSE IF Head(s) # Head(t) THEN Ord(Head(s)) < Ord(Head(t))
    ELSE StrLt(Tail(s), Tail(t))

\* a op b for an ordering operator: a bool, or the TypeError Python raises
\* when the operand types are not ordered.
PyOrder(op, a, b) ==
    IF IsNumber(a) /\ IsNumber(b)
    THEN LET x == Numer(a) * Denom(b)
             y == Numer(b) * Denom(a)
         IN  Ok(CASE op = ">=" -> x >= y
                  [] op = ">" -> x > y
                  [] op = "<=" -> x <= y
                  [] op = "<" -> x < y)
    ELSE IF a.k = "str" /\ b.k = "str"
    THEN Ok(CASE op = ">=" -> ~StrLt(a.s, b.s)
              [] op = ">" -> StrLt(b.s, a.s)
              [] op = "<=" -> ~StrLt(b.s, a.s)
              [] op = "<" -> StrLt(a.s, b.s))
    ELSE Raise("TypeError",
               <<"'", op, "' not supported between instances of '",
                 TypeName(a), "' and '", TypeName(b), "'">>)

(***************************************************************************)
(* Field resolution and AST evaluation (dsl_parser.py).                    *)
(***************************************************************************)
\* path.split('.')
RECURSIVE Split(_, _)
Split(path, part) ==
    IF path = <<>> THEN <<part>>
    ELSE IF Head(path) = "." THEN <<part>> \o Split(Tail(path), <<>>)
    ELSE Split(Tail(path), Append(part, Head(path)))

\* The for loop of get_field_value: current = current[part]; a KeyError or
\* TypeError is reported as exc "lookup".
RECURSIVE Walk(_, _)
Walk(current, parts) ==
    IF parts = <<>> THEN Ok(current)
    ELSE IF current.k = "dict" /\ Join(Head(parts)) \in DOMAIN current.m
    THEN Walk(current.m[Join(Head(parts))], Tail(parts))
    ELSE Raise("lookup", <<>>)

get_field_value(case, path) ==
    IF Walk(case, Split(path, <<>>)).exc = "none"
    THEN Walk(case, Split(path, <<>>))
    ELSE Raise("ParseError", <<"Field not found: ">> \o path)

\* ComparisonNode.eval without its null branch: Python's own operators.
ComparisonEval_null_as_any(operator, left_val, right_val) ==
    IF operator = "==" THEN Ok(PyBool(PyEq(left_val, right_val)))
    ELSE IF operator = "!=" THEN Ok(PyBool(~PyEq(left_val, right_val)))
    ELSE Bind(PyOrder(operator, left_val, right_val),
              LAMBDA r : Ok(PyBool(r.val)))

ComparisonEval(operator, left_val, right_val) ==
    IF left_val.k = "null" \/ right_val.k = "null"
    THEN IF operator = "=="
         THEN Ok(PyBool(left_val.k = "null" /\ right_val.k = "null"))
         ELSE IF operator = "!="
         THEN Ok(PyBool(left_val.k # "null" \/ right_val.k # "null"))
         ELSE Ok(PyBool(FALSE))
    ELSE IF operator = "==" THEN Ok(PyBool(PyEq(left_val, right_val)))
    ELSE IF operator = "!=" THEN Ok(PyBool(~PyEq(left_val, right_val)))
    ELSE Bind(PyOrder(operator, left_val, right_val),
              LAMBDA r : Ok(PyBool(r.val)))

\* ASTNode.eval of every node class.
RECURSIVE eval(_, _)

\* ASTNode.eval with And and Or evaluating both operands before combining.
eval_both_operands(ast, case) ==
    CASE ast.node = "Boolean" -> Ok(PyBool(ast.value))
      [] ast.node = "Null" -> Ok(PyNone)
      [] ast.node = "Number" -> Ok(ast.value)
      [] ast.node = "Field" -> get_field_value(case, ast.path)
      [] ast.node = "Not" ->
            Bind(eval(ast.expr, case), LAMBDA e : Ok(PyBool(~Truthy(e.val))))
      [] ast.node = "And" ->
            Bind(eval(ast.left, case),
                 LAMBDA l : Bind(eval(ast.right, case),
                                 LAMBDA r : Ok(PyBool(Truthy(l.val)
                                                      /\ Truthy(r.val)))))
      [] ast.node = "Or" ->
            Bind(eval(ast.left, case),
                 LAMBDA l : Bind(eval(ast.right, case),
                                 LAMBDA r : Ok(PyBool(Truthy(l.val)
                                                      \/ Truthy(r.val)))))
      [] ast.node = "Comparison" ->
            Bind(eval(ast.left, case),
                 LAMBDA l : Bind(eval(ast.right, case),
                                 LAMBDA r : ComparisonEval(ast.operator,
                                                           l.val, r.val)))

eval(ast, case) ==
    CASE ast.node = "Boolean" -> Ok(PyBool(ast.value))
      [] ast.node = "Null" -> Ok(PyNone)
      [] ast.node = "Number" -> Ok(ast.value)
      [] ast.node = "Field" -> get_field_value(case, ast.path)
      [] ast.node = "Not" ->
            Bind(eval(ast.expr, case), LAMBDA e : Ok(PyBool(~Truthy(e.val))))
      [] ast.node = "And" ->
            Bind(eval(ast.left, case),
                 LAMBDA l : IF ~Truthy(l.val) THEN Ok(PyBool(FALSE))
                            ELSE Bind(eval(ast.right, case),
                                      LAMBDA r : Ok(PyBool(Truthy(r.val)))))
      [] ast.node = "Or" ->
            Bind(eval(ast.left, case),
                 LAMBDA l : IF Truthy(l.val) THEN Ok(PyBool(TRUE))
                            ELSE Bind(eval(ast.right, case),
                                      LAMBDA r : Ok(PyBool(Truthy(r.val)))))
      [] ast.node = "Comparison" ->
            Bind(eval(ast.left, case),
                 LAMBDA l : Bind(eval(ast.right, case),
                                 LAMBDA r : ComparisonEval(ast.operator,
                                                           l.val, r.val)))

\* ast.eval(case) of the parsed expression: the value, before bool().
Value(expr, case) == Bind(parse(expr), LAMBDA a : eval(a.ast, case))

\* eval_expr: the truth value (a TLA+ boolean) of the parsed expression.
eval_expr(expr, case) ==
    Bind(parse(expr),
         LAMBDA a : Bind(eval(a.ast, case), LAMBDA v : Ok(Truthy(v.val))))

(***************************************************************************)
(* Rule sets (interpreter.py).  A node, an action, meta and the rule set   *)
(* are dicts; ids and routing targets are Python strs kept whole.  A       *)
(* value that may be None is PyNone or a tagged record:  PyId for an id,   *)
(* PyList for a list.  An outcome is a message (a sequence of pieces);     *)
(* the outcome None is the empty sequence, which no built outcome equals.  *)
(***************************************************************************)
PyId(s) == [k |-> "str", id |-> s]
PyList(items) == [k |-> "list", items |-> items]

\* d.get(key, default)
Get(d, key, default) == IF key \in DOMAIN d THEN d[key] ELSE default

\* bool(x) of an optional id: None and '' are falsy.
TruthyId(x) == x.k # "null" /\ x.id # ""

NoOutcome == <<>>

max_iterations == 100

\* TraceEntry with the version and timestamp arguments swapped.
TraceEntry_swapped(node_id, node_type, outcome, actions, cite, profile, version, rule_hash, timestamp) ==
    [node |-> node_id, type |-> node_type, outcome |-> outcome,
     actions |-> actions, cite |-> cite, profile |-> profile,
     version |-> timestamp, rule_hash |-> rule_hash, timestamp |-> version]

TraceEntry(node_id, node_type, outcome, actions, cite, profile, version, rule_hash, timestamp) ==
    [node |-> node_id, type |-> node_type, outcome |-> outcome,
     actions |-> actions, cite |-> cite, profile |-> profile,
     version |-> version, rule_hash |-> rule_hash, timestamp |-> timestamp]

(***************************************************************************)
(* The rule hash (interpreter.py, lines 49-68).  A Python dict keeps the   *)
(* order its keys were inserted in, and json.dumps writes them in that     *)
(* order unless told to sort: a document is a tree whose mappings are      *)
(* sequences of <<key, value>> pairs, the key a str as its characters.     *)
(***************************************************************************)
DNull == [j |-> "null"]
DInt(n) == [j |-> "int", n |-> n]
DStr(s) == [j |-> "str", s |-> s]
DList(items) == [j |-> "list", items |-> items]
DDict(pairs) == [j |-> "dict", pairs |-> pairs]

\* A sort that fills every place with the pair of the smallest key.
Sorted_smallest_only(pairs) ==
    [r \in 1..Len(pairs) |->
        pairs[CHOOSE i \in 1..Len(pairs) :
                \A j \in 1..Len(pairs) : ~StrLt(pairs[j][1], pairs[i][1])]]

\* sorted(obj.items()): the pairs by ascending key (the keys of a dict are
\* distinct, so no two values are ever compared).
Sorted(pairs) ==
    [r \in 1..Len(pairs) |->
        pairs[CHOOSE i \in 1..Len(pairs) :
                Cardinality({j \in 1..Len(pairs) :
                                StrLt(pairs[j][1], pairs[i][1])}) = r - 1]]

RECURSIVE canonicalize_dict(_)
canonicalize_dict(obj) ==
    IF obj.j = "dict"
    THEN DDict([i \in 1..Len(obj.pairs) |->
                  <<Sorted(obj.pairs)[i][1],
                    canonicalize_dict(Sorted(obj.pairs)[i][2])>>])
    ELSE IF obj.j = "list"
    THEN DList([i \in 1..Len(obj.items) |-> canonicalize_dict(obj.items[i])])
    ELSE obj

\* The concatenation of a sequence of texts (by halves, to any length).
RECURSIVE Concat(_)
Concat(texts) ==
    IF Len(texts) = 0 THEN <<>>
    ELSE IF Len(texts) = 1 THEN texts[1]
    ELSE Concat(SubSeq(texts, 1, Len(texts) \div 2))
            \o Concat(SubSeq(texts, Len(texts) \div 2 + 1, Len(texts)))

\* ','.join(texts)
Commas(texts) ==
    Concat([i \in 1..Len(texts) |->
               IF i = 1 THEN texts[i] ELSE <<",">> \o texts[i]])

\* json.dumps(obj, sort_keys=sort_keys, separators=(',', ':')): the JSON
\* text, as a sequence of pieces.
RECURSIVE dumps(_, _)
dumps(obj, sort_keys) ==
    CASE obj.j = "null" -> <<"null">>
      [] obj.j = "int" -> <<ToString(obj.n)>>
      [] obj.j = "str" -> <<"\"">> \o obj.s \o <<"\"">>
      [] obj.j = "list" ->
            <<"[">> \o Commas([i \in 1..Len(obj.items) |->
                                  dumps(obj.items[i], sort_keys)]) \o <<"]">>
      [] obj.j = "dict" ->
            <<"{">> \o Commas([i \in 1..Len(obj.pairs) |->
                        <<"\"">>
                        \o (IF sort_keys THEN Sorted(obj.pairs) ELSE obj.pairs)[i][1]
                        \o <<"\"", ":">>
                        \o dumps((IF sort_keys THEN Sorted(obj.pairs)
                                  ELSE obj.pairs)[i][2], sort_keys)])
            \o <<"}">>

\* hashlib.sha256(text).hexdigest(): a digest that tells any two texts
\* apart (no collision of SHA-256 is within the model).
sha256(text) == [hexdigest |-> text]

\* The digest of the JSON text of the dict as it is, keys unsorted.
canonicalize_and_hash_as_written(dsl_dict) == sha256(dumps(dsl_dict, FALSE))

canonicalize_and_hash(dsl_dict) ==
    sha256(dumps(canonicalize_dict(dsl_dict), TRUE))

InterpreterError(msg) == Raise("InterpreterError", msg)

\* validate_node_structure without its last test (a 'when' on an action).
validate_node_structure_no_when_test(node) ==
    IF "id" \notin DOMAIN node
    THEN InterpreterError(<<"Node missing required 'id' field">>)
    ELSE IF "type" \notin DOMAIN node
    THEN InterpreterError(<<"Node ", node.id, " missing required 'type' field">>)
    ELSE IF node.type \notin {"decision", "action"}
    THEN InterpreterError(<<"Node ", node.id, " has invalid type: ", node.type>>)
    ELSE IF node.type = "decision"
    THEN IF "when" \notin DOMAIN node
         THEN InterpreterError(<<"Decision node ", node.id,
                                 " missing 'when' condition">>)
         ELSE IF "actions" \in DOMAIN node
         THEN InterpreterError(<<"Decision node ", node.id,
                                 " should not have 'actions' field">>)
         ELSE Ok(TRUE)
    ELSE IF "actions" \notin DOMAIN node
         THEN InterpreterError(<<"Action node ", node.id,
                                 " missing 'actions' field">>)
         ELSE Ok(TRUE)

validate_node_structure(node) ==
    IF "id" \notin DOMAIN node
    THEN InterpreterError(<<"Node missing required 'id' field">>)
    ELSE IF "type" \notin DOMAIN node
    THEN InterpreterError(<<"Node ", node.id, " missing required 'type' field">>)
    ELSE IF node.type \notin {"decision", "action"}
    THEN InterpreterError(<<"Node ", node.id, " has invalid type: ", node.type>>)
    ELSE IF node.type = "decision"
    THEN IF "when" \notin DOMAIN node
         THEN InterpreterError(<<"Decision node ", node.id,
                                 " missing 'when' condition">>)
         ELSE IF "actions" \in DOMAIN node
         THEN InterpreterError(<<"Decision node ", node.id,
                                 " should not have 'actions' field">>)
         ELSE Ok(TRUE)
    ELSE IF "actions" \notin DOMAIN node
         THEN InterpreterError(<<"Action node ", node.id,
                                 " missing 'actions' field">>)
         ELSE IF "when" \in DOMAIN node
         THEN InterpreterError(<<"Action node ", node.id,
                                 " should not have 'when' field">>)
         ELSE Ok(TRUE)

\* The first node whose id is node_id, or None.
get_node_by_id(nodes, node_id) ==
    LET hits == {i \in 1..Len(nodes) :
                    "id" \in DOMAIN nodes[i] /\ nodes[i].id = node_id}
    IN  IF hits = {} THEN PyNone
        ELSE nodes[CHOOSE i \in hits : \A j \in hits : i <= j]

\* The except clauses without the condition's text in the message.
ConditionError_bare(condition, e) ==
    IF e.exc = "ParseError"
    THEN InterpreterError(<<"Failed to evaluate condition: ">> \o e.msg)
    ELSE InterpreterError(<<"Unexpected error evaluating condition: ">> \o e.msg)

\* The except clauses of evaluate_condition.
ConditionError(condition, e) ==
    IF e.exc = "ParseError"
    THEN InterpreterError(<<"Failed to evaluate condition '">> \o condition
                          \o <<"': ">> \o e.msg)
    ELSE InterpreterError(<<"Unexpected error evaluating condition '">>
                          \o condition \o <<"': ">> \o e.msg)

Catch(r, Handler(_)) == IF r.exc = "none" THEN r ELSE Handler(r)

evaluate_condition(condition, case) ==
    Catch(eval_expr(condition, case), LAMBDA e : ConditionError(condition, e))

\* The next id a decision selects (lines 141-147).
\* The routing of a decision without the test of a false outcome before
\* goto_false.
DecisionNext_goto_false_untested(node, outcome) ==
    IF outcome /\ "goto_true" \in DOMAIN node THEN PyId(node.goto_true)
    ELSE IF "goto_false" \in DOMAIN node THEN PyId(node.goto_false)
    ELSE IF "next" \in DOMAIN node THEN PyId(node.next)
    ELSE PyNone

DecisionNext(node, outcome) ==
    IF outcome /\ "goto_true" \in DOMAIN node THEN PyId(node.goto_true)
    ELSE IF ~outcome /\ "goto_false" \in DOMAIN node THEN PyId(node.goto_false)
    ELSE IF "next" \in DOMAIN node THEN PyId(node.next)
    ELSE PyNone

\* execute_node: the actions, the next id and the trace entry of one node,
\* or the InterpreterError of its condition.  self is the DSLInterpreter
\* (profile, version, rule_hash); now is the clock reading of the entry.
execute_node(self, node, case, now) ==
    IF node.type = "decision"
    THEN Bind(evaluate_condition(node.when, case),
              LAMBDA outcome :
                  [exc |-> "none",
                   actions |-> PyList(<<>>),
                   next_node |-> DecisionNext(node, outcome.val),
                   trace_entry |->
                       TraceEntry(node.id, node.type,
                                  IF outcome.val THEN <<"true">> ELSE <<"false">>,
                                  <<>>, Get(node, "cite", <<>>),
                                  self.profile, self.version, self.rule_hash, now)])
    ELSE LET actions == Get(node, "actions", PyList(<<>>))
         IN  [exc |-> "none",
              actions |-> actions,
              next_node |-> IF "next" \in DOMAIN node THEN PyId(node.next)
                            ELSE PyNone,
              trace_entry |->
                  TraceEntry(node.id, node.type, NoOutcome,
                             IF actions.k = "list" THEN actions.items ELSE <<>>,
                             Get(node, "cite", <<>>),
                             self.profile, self.version, self.rule_hash, now)]

\* An assignment of a fresh list where append is meant.
append_fresh(list, item) == <<item>>

\* list.append(item) and list.extend(items) on the trace and the action list.
append(list, item) == Append(list, item)

\* An extend that puts the new items in front.
extend_in_front(list, items) == items \o list

extend(list, items) == list \o items

\* The safety-stop entry every handler of execute builds.
SafetyEntry(self, outcome, now) ==
    TraceEntry("safety_stop", "safety_stop", outcome, <<>>, <<>>,
               self.profile, self.version, self.rule_hash, now)

\* The validation loop of execute (lines 200-208): the InterpreterError of
\* the first node that fails validate_node_structure or repeats the id of a
\* node before it, or Ok.  (Every node before the first failing one passed,
\* so node_ids holds exactly the ids of the nodes before it.)
ValidateAll(nodes) ==
    LET node_ids(i) == {nodes[j].id : j \in 1..(i - 1)}
        bad == {i \in 1..Len(nodes) :
                    \/ validate_node_structure(nodes[i]).exc # "none"
                    \/ \E j \in 1..(i - 1) :
                          "id" \in DOMAIN nodes[j] /\ nodes[j].id = nodes[i].id}
    IN  IF bad = {} THEN Ok(TRUE)
        ELSE LET i == CHOOSE x \in bad : \A y \in bad : x <= y
                 v == validate_node_structure(nodes[i])
             IN  IF v.exc # "none" THEN v
                 ELSE IF nodes[i].id \in node_ids(i)
                 THEN InterpreterError(<<"Duplicate node ID: ", nodes[i].id>>)
                 ELSE Ok(TRUE)

\* The entry taken to be the first node whatever meta says.
FindEntry_ignoring_meta(meta, nodes) == Ok(nodes[1])

\* The entry node (lines 211-218), or the InterpreterError of a missing one.
FindEntry(meta, nodes) ==
    LET entry_node_id == IF "entry" \in DOMAIN meta THEN PyId(meta.entry)
                         ELSE PyNone
    IN  IF TruthyId(entry_node_id)
        THEN IF get_node_by_id(nodes, entry_node_id.id) = PyNone
             THEN InterpreterError(<<"Entry node '", entry_node_id.id,
                                     "' not found">>)
             ELSE Ok(get_node_by_id(nodes, entry_node_id.id))
        ELSE Ok(nodes[1])

\* The rule set as the dict object yaml.safe_load hands to execute: every
\* mapping with its keys in the order the YAML document writes them.  The
\* documents of the model write meta before nodes and the fields of a node
\* and of an action in the order of WrittenOrder.
WrittenOrder ==
    <<"meta", "nodes", "profile", "version", "entry", "id", "type", "when",
      "goto_true", "goto_false", "next", "actions", "cite", "reason",
      "test_type">>

KeyChars ==
    [meta |-> <<"m", "e", "t", "a">>, nodes |-> <<"n", "o", "d", "e", "s">>,
     profile |-> <<"p", "r", "o", "f", "i", "l", "e">>,
     version |-> <<"v", "e", "r", "s", "i", "o", "n">>,
     entry |-> <<"e", "n", "t", "r", "y">>, id |-> <<"i", "d">>,
     type |-> <<"t", "y", "p", "e">>, when |-> <<"w", "h", "e", "n">>,
     goto_true |-> <<"g", "o", "t", "o", "_", "t", "r", "u", "e">>,
     goto_false |-> <<"g", "o", "t", "o", "_", "f", "a", "l", "s", "e">>,
     next |-> <<"n", "e", "x", "t">>,
     actions |-> <<"a", "c", "t", "i", "o", "n", "s">>,
     cite |-> <<"c", "i", "t", "e">>,
     reason |-> <<"r", "e", "a", "s", "o", "n">>,
     test_type |-> <<"t", "e", "s", "t", "_", "t", "y", "p", "e">>]

\* The keys of d in the order they are written.
KeysOf(d) == SelectSeq(WrittenOrder, LAMBDA key : key \in DOMAIN d)

\* A mapping whose values are strs (meta, an action).
StrDictDoc(d) ==
    DDict([i \in 1..Len(KeysOf(d)) |->
              <<KeyChars[KeysOf(d)[i]], DStr(<<d[KeysOf(d)[i]]>>)>>])

NodeValueDoc(key, value) ==
    CASE key = "when" -> DStr(value)
      [] key = "cite" -> DList([i \in 1..Len(value) |-> DStr(<<value[i]>>)])
      [] key = "actions" ->
            IF value.k = "list"
            THEN DList([i \in 1..Len(value.items) |-> StrDictDoc(value.items[i])])
            ELSE DNull
      [] OTHER -> DStr(<<value>>)

NodeDoc(node) ==
    DDict([i \in 1..Len(KeysOf(node)) |->
              <<KeyChars[KeysOf(node)[i]],
                NodeValueDoc(KeysOf(node)[i], node[KeysOf(node)[i]])>>])

Document(dsl_dict) ==
    DDict([i \in 1..Len(KeysOf(dsl_dict)) |->
              <<KeyChars[KeysOf(dsl_dict)[i]],
                IF KeysOf(dsl_dict)[i] = "meta" THEN StrDictDoc(dsl_dict.meta)
                ELSE DList([n \in 1..Len(dsl_dict.nodes) |->
                               NodeDoc(dsl_dict.nodes[n])])>>])

\* Everything execute does before its loop (lines 186-224): the
\* interpreter's fields and the entry node, or the InterpreterError raised.
Preamble(dsl_dict) ==
    LET meta == Get(dsl_dict, "meta", <<>>)
        nodes == Get(dsl_dict, "nodes", <<>>)
    IN  IF nodes = <<>> THEN InterpreterError(<<"No nodes found in DSL">>)
        ELSE Bind(ValidateAll(nodes),
                  LAMBDA v : Bind(FindEntry(meta, nodes),
                      LAMBDA e :
                          [exc |-> "none",
                           self |-> [profile |-> Get(meta, "profile", ""),
                                     version |-> Get(meta, "version", ""),
                                     rule_hash |->
                                         canonicalize_and_hash(Document(dsl_dict))],
                           current_node |-> e.val]))

(***************************************************************************)
(* Static linter (validator.py, class DSLValidator).  A diagnostic is a    *)
(* message: the sequence of the pieces its f-string is made of.  The       *)
(* graph is a dict in insertion order: its keys in order and the edge      *)
(* list of each key.                                                       *)
(***************************************************************************)
Range(list) == {list[i] : i \in 1..Len(list)}

\* node.get("id")
NodeId(node) == IF "id" \in DOMAIN node THEN PyId(node.id) ELSE PyNone

\* f"{x}" of node.get("id")
Str(x) == IF x = PyNone THEN "None" ELSE x.id

\* node.get("id", "unknown")
IdOrUnknown(node) == IF "id" \in DOMAIN node THEN node.id ELSE "unknown"

\* {node.get("id") for node in nodes if "id" in node}
IdsOf(nodes) ==
    {nodes[i].id : i \in {j \in 1..Len(nodes) : "id" \in DOMAIN nodes[j]}}

\* entry_node = meta.get("entry"), where it is truthy.
HasEntry(meta) == "entry" \in DOMAIN meta /\ meta.entry # ""

check_duplicate_ids(dsl_dict) ==
    LET nodes == Get(dsl_dict, "nodes", <<>>)
    IN  Concat([i \in 1..Len(nodes) |->
                   IF \E j \in 1..(i - 1) : NodeId(nodes[j]) = NodeId(nodes[i])
                   THEN <<<<"DUPLICATE_ID: Duplicate node ID '",
                            Str(NodeId(nodes[i])), "'">>>>
                   ELSE <<>>])

\* One of the three reference checks of _check_missing_nodes on a node.
MissingReference(node, key, valid_ids) ==
    IF key \in DOMAIN node /\ node[key] \notin valid_ids
    THEN <<<<"MISSING_NODE: Node '", IdOrUnknown(node),
             "' references missing ", key, " node '", node[key], "'">>>>
    ELSE <<>>

check_missing_nodes(dsl_dict) ==
    LET nodes == Get(dsl_dict, "nodes", <<>>)
        meta == Get(dsl_dict, "meta", <<>>)
        valid_ids == IdsOf(nodes)
    IN  (IF HasEntry(meta) /\ meta.entry \notin valid_ids
         THEN <<<<"MISSING_NODE: Entry node '", meta.entry, "' not found">>>>
         ELSE <<>>)
        \o Concat([i \in 1..Len(nodes) |->
                      MissingReference(nodes[i], "next", valid_ids)
                      \o MissingReference(nodes[i], "goto_true", valid_ids)
                      \o MissingReference(nodes[i], "goto_false", valid_ids)])

\* The edge list graph[node_id] built from one node.
Edges(node) ==
    (IF "next" \in DOMAIN node THEN <<node.next>> ELSE <<>>)
    \o (IF "goto_true" \in DOMAIN node THEN <<node.goto_true>> ELSE <<>>)
    \o (IF "goto_false" \in DOMAIN node THEN <<node.goto_false>> ELSE <<>>)

EmptyGraph == [keys |-> <<>>, edges |-> <<>>]

\* The loop that builds graph: a later node of the same id replaces the
\* edge list and keeps the key's place.
RECURSIVE BuildGraph(_, _)
BuildGraph(nodes, graph) ==
    IF nodes = <<>> THEN graph
    ELSE LET node == Head(nodes)
         IN  IF "id" \in DOMAIN node /\ node.id # ""
             THEN BuildGraph(Tail(nodes),
                      [keys |-> IF node.id \in Range(graph.keys)
                                THEN graph.keys
                                ELSE Append(graph.keys, node.id),
                       edges |-> (node.id :> Edges(node)) @@ graph.edges])
             ELSE BuildGraph(Tail(nodes), graph)

\* _dfs_reachable: the set reachable after the call.
RECURSIVE dfs_reachable(_, _, _)
RECURSIVE ReachEach(_, _, _)
ReachEach(graph, neighbors, reachable) ==
    IF neighbors = <<>> THEN reachable
    ELSE ReachEach(graph, Tail(neighbors),
                   dfs_reachable(graph, Head(neighbors), reachable))

\* _dfs_reachable without the descent into graph[start].
dfs_reachable_start_only(graph, start, reachable) == reachable \cup {start}

dfs_reachable(graph, start, reachable) ==
    IF start \in reachable THEN reachable
    ELSE IF start \in DOMAIN graph.edges
    THEN ReachEach(graph, graph.edges[start], reachable \cup {start})
    ELSE reachable \cup {start}

\* order is the order in which the for loop iterates the set unreachable.
check_unreachable_nodes(dsl_dict, order) ==
    LET nodes == Get(dsl_dict, "nodes", <<>>)
        meta == Get(dsl_dict, "meta", <<>>)
        graph == BuildGraph(nodes, EmptyGraph)
        reachable ==
            IF HasEntry(meta) /\ meta.entry \in DOMAIN graph.edges
            THEN dfs_reachable(graph, meta.entry, {})
            ELSE IF "id" \in DOMAIN nodes[1] /\ nodes[1].id # ""
            THEN dfs_reachable(graph, nodes[1].id, {})
            ELSE {}
        unreachable == IdsOf(nodes) \ reachable
        listed == SelectSeq(order, LAMBDA node_id : node_id \in unreachable)
    IN  IF nodes = <<>> THEN <<>>
        ELSE [i \in 1..Len(listed) |->
                 <<"UNREACHABLE_NODE: Node '", listed[i],
                   "' is unreachable from entry point">>]

\* What a call of _dfs_cycle leaves: the cycle returned and the sets and
\* the list it mutated.
Returns(cycle, visited, rec_stack, path) ==
    [exc |-> "none", cycle |-> cycle, visited |-> visited,
     rec_stack |-> rec_stack, path |-> path]

\* path.index(x)
Index(path, x) ==
    IF x \in Range(path)
    THEN Ok(CHOOSE i \in 1..Len(path) :
               path[i] = x /\ \A j \in 1..(i - 1) : path[j] # x)
    ELSE Raise("ValueError", <<"'", x, "' is not in list">>)

\* _dfs_cycle does not take back its additions to rec_stack and path when
\* it returns a cycle.
RECURSIVE dfs_cycle(_, _, _, _, _)
RECURSIVE CycleEach(_, _, _, _, _, _)
CycleEach(graph, node, neighbors, visited, rec_stack, path) ==
    IF neighbors = <<>>
    THEN Returns(<<>>, visited, rec_stack \ {node},
                 SubSeq(path, 1, Len(path) - 1))
    ELSE LET neighbor == Head(neighbors)
         IN  IF neighbor \notin visited
             THEN LET r == dfs_cycle(graph, neighbor, visited, rec_stack, path)
                  IN  IF r.exc # "none" THEN r
                      ELSE IF r.cycle # <<>> THEN r
                      ELSE CycleEach(graph, node, Tail(neighbors),
                                     r.visited, r.rec_stack, r.path)
             ELSE IF neighbor \in rec_stack
             THEN IF Index(path, neighbor).exc # "none"
                  THEN Index(path, neighbor)
                  ELSE Returns(SubSeq(path, Index(path, neighbor).val, Len(path))
                                   \o <<neighbor>>,
                               visited, rec_stack, path)
             ELSE CycleEach(graph, node, Tail(neighbors),
                            visited, rec_stack, path)

dfs_cycle(graph, node, visited, rec_stack, path) ==
    IF node \in DOMAIN graph.edges
    THEN CycleEach(graph, node, graph.edges[node], visited \cup {node},
                   rec_stack \cup {node}, Append(path, node))
    ELSE Returns(<<>>, visited \cup {node}, rec_stack \ {node}, path)

\* ' -> '.join(cycle)
Arrows(cycle) ==
    Concat([i \in 1..Len(cycle) |->
               IF i = 1 THEN <<cycle[i]>> ELSE <<" -> ", cycle[i]>>])

\* The for loop of _check_cycles over the keys of graph; visited and
\* rec_stack are shared by its calls of _dfs_cycle, path is fresh in each.
RECURSIVE CyclesFrom(_, _, _, _, _)
CyclesFrom(graph, keys, visited, rec_stack, warnings) ==
    IF keys = <<>> THEN Ok(warnings)
    ELSE IF Head(keys) \in visited
    THEN CyclesFrom(graph, Tail(keys), visited, rec_stack, warnings)
    ELSE LET r == dfs_cycle(graph, Head(keys), visited, rec_stack, <<>>)
         IN  IF r.exc # "none" THEN r
             ELSE CyclesFrom(graph, Tail(keys), r.visited, r.rec_stack,
                      IF r.cycle # <<>>
                      THEN Append(warnings,
                               <<"CYCLE_DETECTED: Cycle found: ">>
                                   \o Arrows(r.cycle))
                      ELSE warnings)

check_cycles(dsl_dict) ==
    LET nodes == Get(dsl_dict, "nodes", <<>>)
        graph == BuildGraph(nodes, EmptyGraph)
    IN  IF nodes = <<>> THEN Ok(<<>>)
        ELSE CyclesFrom(graph, graph.keys, {}, {}, <<>>)

valid_action_types == {"suggest_referral", "order_test", "set_followup", "abstain"}

\* isinstance(action, dict): an action that is no dict is a tagged value.
IsDict(action) == "k" \notin DOMAIN action

\* The for loop over enumerate(actions) of one action node.
ActionWarnings(node_id, actions) ==
    Concat([i \in 1..Len(actions) |->
               IF ~IsDict(actions[i])
               THEN <<<<"INVALID_ACTION: Node '", node_id, "' action ",
                        ToString(i - 1), " is not a dictionary">>>>
               ELSE IF Get(actions[i], "type", "None") \notin valid_action_types
               THEN <<<<"UNKNOWN_ACTION_TYPE: Node '", node_id,
                        "' has unknown action type '",
                        Get(actions[i], "type", "None"), "'">>>>
               ELSE <<>>])

\* The for loop of _check_action_consistency; enumerate(None) raises.
RECURSIVE ConsistencyFrom(_, _)
ConsistencyFrom(nodes, warnings) ==
    IF nodes = <<>> THEN Ok(warnings)
    ELSE LET node == Head(nodes)
             node_id == IdOrUnknown(node)
             actions == Get(node, "actions", PyList(<<>>))
         IN  IF Get(node, "type", "") # "action"
             THEN ConsistencyFrom(Tail(nodes), warnings)
             ELSE IF actions = PyNone
             THEN Raise("TypeError", <<"'NoneType' object is not iterable">>)
             ELSE ConsistencyFrom(Tail(nodes),
                      warnings
                      \o (IF actions.items = <<>>
                          THEN <<<<"EMPTY_ACTIONS: Action node '", node_id,
                                   "' has no actions">>>>
                          ELSE <<>>)
                      \o ActionWarnings(node_id, actions.items))

check_action_consistency(dsl_dict) ==
    ConsistencyFrom(Get(dsl_dict, "nodes", <<>>), <<>>)

\* The four checks of _check_node_structure on one node.
StructureWarnings(node) ==
    LET node_id == IdOrUnknown(node)
        node_type == Get(node, "type", "")
        has_when == "when" \in DOMAIN node
        has_actions == "actions" \in DOMAIN node
    IN  (IF node_type = "decision" /\ has_actions
         THEN <<<<"STRUCTURE_ERROR: Decision node '", node_id,
                  "' should not have 'actions' field">>>>
         ELSE <<>>)
        \o (IF node_type = "action" /\ has_when
            THEN <<<<"STRUCTURE_ERROR: Action node '", node_id,
                     "' should not have 'when' field">>>>
            ELSE <<>>)
        \o (IF node_type = "decision" /\ ~has_when
            THEN <<<<"MISSING_FIELD: Decision node '", node_id,
                     "' missing 'when' condition">>>>
            ELSE <<>>)
        \o (IF node_type = "action" /\ ~has_actions
            THEN <<<<"MISSING_FIELD: Action node '", node_id,
                     "' missing 'actions' field">>>>
            ELSE <<>>)

check_node_structure(dsl_dict) ==
    LET nodes == Get(dsl_dict, "nodes", <<>>)
    IN  Concat([i \in 1..Len(nodes) |-> StructureWarnings(nodes[i])])

\* DSLValidator.lint_rules.  schema_errors is what the try block around
\* the JSON Schema validator added to warnings; order is the iteration
\* order of the set of unreachable ids.
lint_rules(dsl_dict, schema_errors, order) ==
    LET warnings == schema_errors
                    \o check_duplicate_ids(dsl_dict)
                    \o check_missing_nodes(dsl_dict)
                    \o check_unreachable_nodes(dsl_dict, order)
    IN  Bind(check_cycles(dsl_dict),
             LAMBDA c : Bind(check_action_consistency(dsl_dict),
                 LAMBDA a : Ok(warnings \o c.val \o a.val
                               \o check_node_structure(dsl_dict))))

(***************************************************************************)
(* Inputs: the rule sets and cases execute is called on.                   *)
(***************************************************************************)
\* How far the lengths of the long chains range around max_iterations.
ChainSlack == 1
\* How many times execute is called on one input (SpecTwice).
MaxCalls == 2

Absent == "<absent>"

\* {name: value}, or {} when the value is absent.
Field(name, value) == IF value = Absent THEN <<>> ELSE (name :> value)

\* d without key.
Without(d, key) == [x \in DOMAIN d \ {key} |-> d[x]]

Abstain == [type |-> "abstain", reason |-> "insufficient image quality"]
OrderTest == [type |-> "order_test", test_type |-> "OCT_macula"]

CondXGt1 == <<"x", " ", ">", " ", "1">>
CondTrue == <<"t", "r", "u", "e">>
CondMissingField == <<"y", " ", "=", "=", " ", "1">>
CondTypeError == <<"s", " ", ">", " ", "1">>
CondSyntaxError == <<"x", " ", ">">>
CondDotted == <<"q", ".", "r", " ", "=", "=", " ", "t", "r", "u", "e">>
FailingConds == {CondMissingField, CondTypeError, CondSyntaxError, CondDotted}

Cases ==
    {PyDict([x |-> PyInt(n), s |-> PyStr(<<"q">>),
             q |-> PyDict([r |-> PyBool(TRUE)])]) : n \in {0, 2}}

DecisionNode(id, when, goto_true, goto_false, next) ==
    [id |-> id, type |-> "decision", when |-> when]
        @@ Field("goto_true", goto_true) @@ Field("goto_false", goto_false)
        @@ Field("next", next)

ActionNode(id, actions, next) ==
    [id |-> id, type |-> "action", actions |-> actions] @@ Field("next", next)

Targets == {Absent, "a", "b", "ghost"}

\* The shapes of the first node of a two-node rule set.
FirstNodes ==
    {DecisionNode("a", CondXGt1, t, f, n) :
        t \in Targets, f \in Targets, n \in {Absent, "b"}}
    \cup {DecisionNode("a", c, "b", Absent, Absent) : c \in FailingConds}
    \cup {ActionNode("a", PyList(l), n) :
            l \in {<<Abstain>>, <<OrderTest, Abstain>>}, n \in Targets}
    \cup {ActionNode("a", PyNone, "b"),
          ActionNode("a", PyList(<<Abstain>>), "b") @@ [cite |-> <<"ref1">>]}

\* The shapes of the second node.
SecondNodes ==
    {ActionNode("b", PyList(<<OrderTest>>), n) : n \in Targets \cup {""}}
    \cup {ActionNode("b", PyList(<<>>), Absent)}
    \cup {DecisionNode("b", CondXGt1, t, Absent, Absent) :
            t \in {Absent, "a", "ghost"}}
    \cup {DecisionNode("b", CondMissingField, "a", Absent, Absent)}

Metas ==
    {[profile |-> "test_profile", version |-> "1.0.0"] @@ Field("entry", e) :
        e \in {Absent, "b", "ghost", ""}}
    \cup {<<>>}

SmallRuleSets ==
    {[meta |-> m, nodes |-> <<n1, n2>>] :
        m \in Metas, n1 \in FirstNodes, n2 \in SecondNodes}
    \cup {[nodes |-> <<DecisionNode("a", CondXGt1, "b", Absent, Absent),
                       ActionNode("b", PyList(<<Abstain>>), Absent)>>]}

\* Rule sets that break the structural contract of a node, at the entry
\* node or at a node no route reaches, or that hold no node.
GoodA == DecisionNode("a", CondXGt1, Absent, Absent, Absent)
GoodB == ActionNode("b", PyList(<<Abstain>>), Absent)

BrokenNodes ==
    {Without(GoodB, "id"), Without(GoodB, "type"),
     Without(GoodB, "actions"), GoodB @@ [when |-> CondTrue],
     [GoodB EXCEPT !.type = "other"], [GoodB EXCEPT !.id = "a"],
     Without(DecisionNode("b", CondTrue, Absent, Absent, Absent), "when"),
     DecisionNode("b", CondTrue, Absent, Absent, Absent)
        @@ [actions |-> PyList(<<Abstain>>)]}

MalformedRuleSets ==
    {[meta |-> m, nodes |-> ns] :
        m \in {[profile |-> "test_profile", version |-> "1.0.0"],
               [profile |-> "test_profile", version |-> "1.0.0", entry |-> "ghost"]},
        ns \in {<<GoodA, bad>> : bad \in BrokenNodes}
               \cup {<<bad, [GoodA EXCEPT !.id = "c"]>> : bad \in BrokenNodes}
               \cup {<<>>}}
    \cup {[meta |-> [profile |-> "test_profile", version |-> "1.0.0"]]}

\* A chain of len nodes "1" -> "2" -> ... (decisions on the literal true
\* at the odd places, action nodes at the even ones) whose last node ends
\* as tail says: no routing, a route back to "1", a route to a missing id,
\* or a condition on a missing field.
ChainNode(i, len, tail) ==
    LET to == IF i < len THEN ToString(i + 1)
              ELSE CASE tail = "halt" -> Absent
                     [] tail = "cycle" -> "1"
                     [] OTHER -> "ghost"
    IN  IF i = len /\ tail = "error"
        THEN DecisionNode(ToString(i), CondMissingField, "ghost", Absent, Absent)
        ELSE IF i % 2 = 1
        THEN DecisionNode(ToString(i), CondTrue, to, Absent, Absent)
        ELSE ActionNode(ToString(i), PyList(<<OrderTest>>), to)

Chain(len, tail) ==
    [meta |-> [profile |-> "test_profile", version |-> "1.0.0", entry |-> "1"],
     nodes |-> [i \in 1..len |-> ChainNode(i, len, tail)]]

ChainRuleSets ==
    {Chain(len, tail) :
        len \in (max_iterations - ChainSlack)..(max_iterations + ChainSlack),
        tail \in {"halt", "cycle", "ghost", "error"}}

Inputs ==
    ((SmallRuleSets \cup MalformedRuleSets) \X Cases)
    \cup (ChainRuleSets \X {CHOOSE c \in Cases : TRUE})

(***************************************************************************)
(* execute as a state machine.  pc is the position in execute: "call"      *)
(* (not yet entered), "loop" (at the head of an iteration of the for       *)
(* loop), "after_loop" (line 308), "returned", "raised".  exit records     *)
(* how the for loop was left; clock is the wall clock datetime.now()       *)
(* reads; results holds what each finished call gave its caller.           *)
(***************************************************************************)
VARIABLES dsl, case, pc, interpreter, current_node, iteration, all_actions,
          trace, visited_nodes, exit, clock, results, input, output

\* The variables of a call of execute.
execute_vars == <<dsl, case, pc, interpreter, current_node, iteration,
                  all_actions, trace, visited_nodes, exit, clock, results>>

\* input and output are the arguments and the result of a call of one of
\* the pure functions (canonicalize_and_hash, eval_expr), made on its own.
vars == <<execute_vars, input, output>>

NewInterpreter == [profile |-> "", version |-> "", rule_hash |-> ""]

Init ==
    /\ \E in \in Inputs : dsl = in[1] /\ case = in[2]
    /\ pc = "call"
    /\ interpreter = NewInterpreter
    /\ current_node = PyNone
    /\ iteration = 0
    /\ all_actions = <<>>
    /\ trace = <<>>
    /\ visited_nodes = {}
    /\ exit = "none"
    /\ clock = 0
    /\ results = <<>>
    /\ input = <<>>
    /\ output = <<>>

\* Lines 186-224, ending at the head of the loop or in the raised error.
Enter ==
    /\ pc = "call"
    /\ \E p \in {Preamble(dsl)} :
          IF p.exc = "none"
          THEN /\ pc' = "loop"
               /\ interpreter' = p.self
               /\ current_node' = p.current_node
               /\ UNCHANGED results
          ELSE /\ pc' = "raised"
               /\ results' = Append(results, p)
               /\ UNCHANGED <<interpreter, current_node>>
    /\ UNCHANGED <<input, output, dsl, case, iteration, all_actions, trace, visited_nodes,
                   exit, clock>>

\* Leaving the loop by break.
Break(how) ==
    /\ pc' = "after_loop"
    /\ exit' = how

\* Going on to the next iteration of range(max_iterations), if any.
Continue ==
    IF iteration + 1 < max_iterations
    THEN /\ iteration' = iteration + 1
         /\ UNCHANGED <<pc, exit>>
    ELSE /\ pc' = "after_loop"
         /\ exit' = "exhausted"
         /\ UNCHANGED iteration

\* Lines 227-245: the breaks at the head of an iteration.
BreakAtHead ==
    /\ pc = "loop"
    /\ \/ current_node = PyNone
       \/ current_node.id \in visited_nodes
    /\ IF current_node = PyNone
       THEN /\ Break("none")
            /\ UNCHANGED <<trace, clock>>
       ELSE /\ trace' = append(trace, SafetyEntry(interpreter,
                                                  <<"cycle_detected">>, clock + 1))
            /\ clock' = clock + 1
            /\ Break("cycle_detected")
    /\ UNCHANGED <<input, output, dsl, case, interpreter, current_node, iteration, all_actions,
                   visited_nodes, results>>

\* The iteration executes a node: it is there and not yet visited.
AtNode == pc = "loop" /\ current_node # PyNone
                      /\ current_node.id \notin visited_nodes

\* What execute_node gives for the current node (line 250).
Executed == {execute_node(interpreter, current_node, case, clock + 1)}

\* StepOn with the node's own actions list used as the accumulator: the
\* actions gathered so far are put into the rule set's list.
StepOn_extending_node_actions ==
    /\ AtNode
    /\ \E e \in Executed :
          /\ e.exc = "none" /\ e.actions.k = "list"
          /\ TruthyId(e.next_node)
          /\ get_node_by_id(dsl.nodes, e.next_node.id) # PyNone
          /\ all_actions' = extend(all_actions, e.actions.items)
          /\ trace' = append(trace, e.trace_entry)
          /\ current_node' = get_node_by_id(dsl.nodes, e.next_node.id)
    /\ dsl' = IF current_node.type = "action"
              THEN LET i == CHOOSE n \in 1..Len(dsl.nodes) :
                                dsl.nodes[n].id = current_node.id
                   IN  [dsl EXCEPT !.nodes[i].actions = PyList(all_actions')]
              ELSE dsl
    /\ visited_nodes' = visited_nodes \cup {current_node.id}
    /\ clock' = clock + 1
    /\ Continue
    /\ UNCHANGED <<input, output, case, interpreter, results>>

\* Lines 247-261: the node gave a next id and it resolves.
StepOn ==
    /\ AtNode
    /\ \E e \in Executed :
          /\ e.exc = "none" /\ e.actions.k = "list"
          /\ TruthyId(e.next_node)
          /\ get_node_by_id(dsl.nodes, e.next_node.id) # PyNone
          /\ all_actions' = extend(all_actions, e.actions.items)
          /\ trace' = append(trace, e.trace_entry)
          /\ current_node' = get_node_by_id(dsl.nodes, e.next_node.id)
    /\ visited_nodes' = visited_nodes \cup {current_node.id}
    /\ clock' = clock + 1
    /\ Continue
    /\ UNCHANGED <<input, output, dsl, case, interpreter, results>>

\* Lines 262-274 with the SafetyStop put before the node's own entry.
StepMissing_stop_first ==
    /\ AtNode
    /\ \E e \in Executed :
          /\ e.exc = "none" /\ e.actions.k = "list"
          /\ TruthyId(e.next_node)
          /\ get_node_by_id(dsl.nodes, e.next_node.id) = PyNone
          /\ all_actions' = extend(all_actions, e.actions.items)
          /\ trace' = append(append(trace, SafetyEntry(interpreter,
                                        <<"missing_node">>, clock + 2)),
                             e.trace_entry)
    /\ visited_nodes' = visited_nodes \cup {current_node.id}
    /\ clock' = clock + 2
    /\ current_node' = PyNone
    /\ Break("missing_node")
    /\ UNCHANGED <<input, output, dsl, case, interpreter, iteration, results>>

\* Lines 262-274: the next id names no node.
StepMissing ==
    /\ AtNode
    /\ \E e \in Executed :
          /\ e.exc = "none" /\ e.actions.k = "list"
          /\ TruthyId(e.next_node)
          /\ get_node_by_id(dsl.nodes, e.next_node.id) = PyNone
          /\ all_actions' = extend(all_actions, e.actions.items)
          /\ trace' = append(append(trace, e.trace_entry),
                             SafetyEntry(interpreter, <<"missing_node">>,
                                         clock + 2))
    /\ visited_nodes' = visited_nodes \cup {current_node.id}
    /\ clock' = clock + 2
    /\ current_node' = PyNone
    /\ Break("missing_node")
    /\ UNCHANGED <<input, output, dsl, case, interpreter, iteration, results>>

\* Lines 275-277: no next id.
StepHalt ==
    /\ AtNode
    /\ \E e \in Executed :
          /\ e.exc = "none" /\ e.actions.k = "list"
          /\ ~TruthyId(e.next_node)
          /\ all_actions' = extend(all_actions, e.actions.items)
          /\ trace' = append(trace, e.trace_entry)
    /\ visited_nodes' = visited_nodes \cup {current_node.id}
    /\ clock' = clock + 1
    /\ Break("no_next")
    /\ UNCHANGED <<input, output, dsl, case, interpreter, current_node, iteration, results>>

\* Lines 279-292: execute_node raised InterpreterError.
StepInterpreterError ==
    /\ AtNode
    /\ \E e \in Executed :
          /\ e.exc = "InterpreterError"
          /\ trace' = append(trace, SafetyEntry(interpreter,
                                 <<"interpreter_error: ">> \o e.msg, clock + 1))
    /\ visited_nodes' = visited_nodes \cup {current_node.id}
    /\ clock' = clock + 1
    /\ Break("interpreter_error")
    /\ UNCHANGED <<input, output, dsl, case, interpreter, current_node, iteration, all_actions,
                   results>>

\* Lines 293-306: all_actions.extend(actions) raised TypeError, the actions
\* of the node being None.
StepUnexpectedError ==
    /\ AtNode
    /\ \E e \in Executed :
          /\ e.exc = "none" /\ e.actions.k # "list"
          /\ trace' = append(trace, SafetyEntry(interpreter,
                                 <<"unexpected_error: ",
                                   "'NoneType' object is not iterable">>,
                                 clock + 2))
    /\ visited_nodes' = visited_nodes \cup {current_node.id}
    /\ clock' = clock + 2
    /\ Break("unexpected_error")
    /\ UNCHANGED <<input, output, dsl, case, interpreter, current_node, iteration, all_actions,
                   results>>

\* The test of line 308 with the bound itself, not the last index.
CapReached_at_bound(i) == i >= max_iterations

\* Line 308: the test that decides the max_iterations safety stop.
CapReached(i) == i >= max_iterations - 1

\* Lines 308-321.
Return ==
    /\ pc = "after_loop"
    /\ LET final == IF CapReached(iteration)
                    THEN append(trace, SafetyEntry(interpreter,
                                    <<"max_iterations_exceeded">>, clock + 1))
                    ELSE trace
       IN  /\ trace' = final
           /\ results' = Append(results, [exc |-> "none",
                                          actions |-> all_actions,
                                          trace |-> final])
    /\ clock' = IF CapReached(iteration) THEN clock + 1 ELSE clock
    /\ pc' = "returned"
    /\ UNCHANGED <<input, output, dsl, case, interpreter, current_node, iteration, all_actions,
                   visited_nodes, exit>>

\* The caller calls execute again on the same rule set and case.
CallAgain ==
    /\ pc \in {"returned", "raised"}
    /\ Len(results) < MaxCalls
    /\ pc' = "call"
    /\ interpreter' = NewInterpreter
    /\ current_node' = PyNone
    /\ iteration' = 0
    /\ all_actions' = <<>>
    /\ trace' = <<>>
    /\ visited_nodes' = {}
    /\ exit' = "none"
    /\ UNCHANGED <<input, output, dsl, case, clock, results>>

Next ==
    \/ Enter
    \/ BreakAtHead
    \/ StepOn
    \/ StepMissing
    \/ StepHalt
    \/ StepInterpreterError
    \/ StepUnexpectedError
    \/ Return

Spec == Init /\ [][Next]_vars

NextTwice == Next \/ CallAgain

SpecTwice == Init /\ [][NextTwice]_vars

(***************************************************************************)
(* canonicalize_and_hash called on its own, on two documents.  The         *)
(* documents are small rule sets written in different key orders, with     *)
(* fields altered, added and removed and lists reordered.                  *)
(***************************************************************************)
\* The variables of a call of execute when none is made.
NoExecute ==
    /\ dsl = <<>> /\ case = <<>> /\ pc = "idle"
    /\ interpreter = NewInterpreter /\ current_node = PyNone
    /\ iteration = 0 /\ all_actions = <<>> /\ trace = <<>>
    /\ visited_nodes = {} /\ exit = "none" /\ clock = 0 /\ results = <<>>

\* Every order a mapping of these pairs can be written in.
Orders(pairs) ==
    {[i \in 1..Len(pairs) |-> pairs[f[i]]] : f \in Permutations(1..Len(pairs))}

AbstainDoc == DDict(<<<<KeyChars.type, DStr(<<"abstain">>)>>>>)

OrderTestPairs ==
    <<<<KeyChars.type, DStr(<<"order_test">>)>>,
      <<KeyChars.test_type, DStr(<<"OCT_macula">>)>>>>

OrderTestDocs == {DDict(o) : o \in Orders(OrderTestPairs)}

ActionListDocs ==
    {DList(<<a>>) : a \in OrderTestDocs}
    \cup {DList(<<AbstainDoc, a>>) : a \in OrderTestDocs}
    \cup {DList(<<a, AbstainDoc>>) : a \in OrderTestDocs}

ActionNodePairs(actions) ==
    <<<<KeyChars.id, DStr(<<"a">>)>>, <<KeyChars.type, DStr(<<"action">>)>>,
      <<KeyChars.actions, actions>>>>

\* The node with one action in every key order, and with every action
\* list in the written key order.
ActionNodeDocs ==
    {DDict(o) : o \in UNION {Orders(ActionNodePairs(DList(<<a>>))) :
                                a \in OrderTestDocs}}
    \cup {DDict(ActionNodePairs(l)) : l \in ActionListDocs}

DecisionNodeDoc ==
    DDict(<<<<KeyChars.id, DStr(<<"b">>)>>,
            <<KeyChars.type, DStr(<<"decision">>)>>,
            <<KeyChars.when, DStr(CondTrue)>>>>)

NodeListDocs ==
    {DList(<<n>>) : n \in ActionNodeDocs}
    \cup {DList(<<DecisionNodeDoc, DDict(ActionNodePairs(DList(<<AbstainDoc>>)))>>),
          DList(<<DDict(ActionNodePairs(DList(<<AbstainDoc>>))), DecisionNodeDoc>>)}

MetaPairs(version) ==
    <<<<KeyChars.profile, DStr(<<"test_profile">>)>>,
      <<KeyChars.version, DStr(<<version>>)>>>>

\* meta in both key orders, with another version, and without version.
MetaDocs ==
    {DDict(o) : o \in Orders(MetaPairs("1.0.0"))}
    \cup {DDict(MetaPairs("2.0.0")), DDict(SubSeq(MetaPairs("1.0.0"), 1, 1))}

\* The node and its action with their keys in the reverse order.
ReversedNodeList ==
    DList(<<DDict(<<<<KeyChars.actions,
                      DList(<<DDict(<<OrderTestPairs[2], OrderTestPairs[1]>>)>>)>>,
                    <<KeyChars.type, DStr(<<"action">>)>>,
                    <<KeyChars.id, DStr(<<"a">>)>>>>)>>)

\* The rule sets: the first meta with every node list, every meta with
\* the reversed node; each written meta first and nodes first.
HashDocs ==
    {DDict(o) :
        o \in UNION {Orders(<<<<KeyChars.meta, mn[1]>>, <<KeyChars.nodes, mn[2]>>>>) :
                        mn \in {x \in MetaDocs \X NodeListDocs :
                                   \/ x[1] = DDict(MetaPairs("1.0.0"))
                                   \/ x[2] = ReversedNodeList}}}

HashInit ==
    /\ NoExecute
    /\ \E d1 \in HashDocs, d2 \in HashDocs : input = <<d1, d2>>
    /\ output = <<>>

\* hash1 = canonicalize_and_hash(d1); hash2 = canonicalize_and_hash(d2)
Hash ==
    /\ output = <<>>
    /\ output' = <<canonicalize_and_hash(input[1]),
                   canonicalize_and_hash(input[2])>>
    /\ UNCHANGED <<execute_vars, input>>

SpecHash == HashInit /\ [][Hash]_vars

(***************************************************************************)
(* The expression functions called on their own: tokenize, parse, the      *)
(* value of the AST and eval_expr, on one expression and one case.         *)
(***************************************************************************)
\* A case with a field of every kind of value; it has no field y.
EvalCase ==
    PyDict([n |-> PyNone, i |-> PyInt(3), z |-> PyInt(0), f |-> PyFloat(5, 2),
            s |-> PyStr(<<"q">>), e |-> PyStr(<<>>),
            b |-> PyBool(TRUE), c |-> PyBool(FALSE),
            m |-> PyDict([r |-> PyBool(TRUE), u |-> PyNone,
                          k |-> PyDict([v |-> PyInt(1)])]),
            o |-> PyDict(<<>>)])

NullText == <<"n", "u", "l", "l">>
TrueText == <<"t", "r", "u", "e">>
FalseText == <<"f", "a", "l", "s", "e">>

\* The operands of the comparisons: literals and fields.
Operands ==
    {NullText, TrueText, <<"1">>, <<"n">>, <<"i">>, <<"f">>, <<"s">>, <<"b">>,
     <<"m">>}

OpText ==
    [op \in ComparisonOps |->
        CASE op = "==" -> <<"=", "=">> [] op = "!=" -> <<"!", "=">>
          [] op = ">=" -> <<">", "=">> [] op = ">" -> <<">">>
          [] op = "<=" -> <<"<", "=">> [] op = "<" -> <<"<">>]

CmpText(l, op, r) == l \o <<" ">> \o OpText[op] \o <<" ">> \o r
AndText(l, r) == l \o <<" ", "a", "n", "d", " ">> \o r
OrText(l, r) == l \o <<" ", "o", "r", " ">> \o r
NotText(e) == <<"n", "o", "t", " ">> \o e
ParenText(e) == <<"(">> \o e \o <<")">>
DotText(l, r) == l \o <<".">> \o r
QuoteText(str) == <<"'">> \o str \o <<"'">>

LeftOperands ==
    {FalseText, NullText, TrueText, <<"c">>, <<"n">>, <<"b">>, <<"i">>, <<"y">>}
NumberFields == {<<"i">>, <<"z">>, <<"f">>}
NumberTexts == {<<"0">>, <<"1">>, <<"3">>, <<"5">>}
DottedPaths ==
    {DotText(<<"m">>, <<"r">>), DotText(<<"m">>, <<"u">>),
     DotText(<<"m">>, <<"y">>), DotText(<<"s">>, <<"r">>),
     DotText(<<"m">>, DotText(<<"k">>, <<"v">>))}
QuotedStrings == {QuoteText(<<"q">>), QuoteText(<<"x">>)}

\* The fields of the case that hold a value of each kind.
ValueFields ==
    {<<"n">>, <<"c">>, <<"b">>, <<"i">>, <<"z">>, <<"f">>, <<"s">>, <<"e">>,
     <<"m">>, <<"o">>}

\* The fields of the case that hold a str, and the ordering operators.
StringFields == {<<"s">>, <<"e">>}
OrderingOps == {">=", ">", "<=", "<"}

\* Chains of two infix operators over fields, written without parentheses.
ChainAtoms == {<<"b">>, <<"i">>}
ChainOps == {"or", "and", "==", ">"}
InfixText(l, op, r) ==
    IF op = "and" THEN AndText(l, r)
    ELSE IF op = "or" THEN OrText(l, r)
    ELSE CmpText(l, op, r)

\* Sources that are not one whole expression.
EmptySources == {<<>>, <<" ">>}
UnclosedSources ==
    {<<"(">>, <<"(", "b">>, <<"(">> \o CmpText(<<"i">>, ">", <<"1">>),
     <<"(", "(", "b", ")">>}
LeftoverSources ==
    {CmpText(<<"i">>, ">", <<"1">>) \o <<")">>, <<"b", ")">>, <<"(", "b", ")", ")">>,
     <<"b", " ", "c">>, <<"b", " ", "1">>, <<"b", " ", "(", "c", ")">>,
     <<"b", " ", "n", "o", "t", " ", "c">>}
UnknownCharacterSources ==
    {<<"#">>, <<"b", " ", "$">>, <<"b", " ", "&", " ", "c">>,
     <<"b", " ", "=", " ", "1">>, <<"1", ".", "2", ".", "3">>}
DanglingOperatorSources ==
    {<<"b", " ", ">">>, <<"n", "o", "t">>, <<"b", " ", "a", "n", "d">>,
     <<"o", "r", " ", "b">>, <<")">>}
BrokenExpressions ==
    EmptySources \cup UnclosedSources \cup LeftoverSources
    \cup UnknownCharacterSources \cup DanglingOperatorSources

Expressions ==
    Operands \cup {<<"4", "2">>, <<"y">>, <<"e">>, <<"o">>, <<"z">>, <<"c">>}
    \cup {CmpText(l, op, r) : l \in Operands, op \in ComparisonOps, r \in Operands}
    \cup {AndText(l, r) : l \in LeftOperands, r \in {<<"y">>, <<"b">>}}
    \cup {OrText(l, r) : l \in LeftOperands, r \in {<<"y">>, <<"b">>}}
    \cup DottedPaths
    \cup {CmpText(p, "==", TrueText) : p \in DottedPaths}
    \cup QuotedStrings
    \cup {CmpText(<<"s">>, op, q) : op \in {"==", "!="}, q \in QuotedStrings}
    \cup {CmpText(x, ">", k) : x \in NumberFields, k \in NumberTexts}
    \cup {NotText(CmpText(x, ">", k)) : x \in NumberFields, k \in NumberTexts}
    \cup {NotText(ParenText(CmpText(x, ">", k))) :
             x \in NumberFields, k \in NumberTexts}
    \cup {NotText(a) : a \in ValueFields}
    \cup {AndText(a, <<"b">>) : a \in ValueFields}
    \cup {OrText(a, <<"c">>) : a \in ValueFields}
    \cup {CmpText(l, op, r) :
             l \in StringFields, op \in OrderingOps, r \in StringFields}
    \cup {InfixText(InfixText(x, op1, y), op2, z) :
             x \in ChainAtoms, op1 \in ChainOps, y \in ChainAtoms,
             op2 \in ChainOps, z \in ChainAtoms}
    \cup {NotText(InfixText(x, op, y)) :
             x \in ChainAtoms, op \in ChainOps, y \in ChainAtoms}
    \cup BrokenExpressions

EvalInit ==
    /\ NoExecute
    /\ \E expr \in Expressions : input = <<expr, EvalCase>>
    /\ output = <<>>

\* tokens = tokenize(expr); ast = parse(expr); ast.eval(case);
\* eval_expr(expr, case)
Evaluate ==
    /\ output = <<>>
    /\ output' = <<[tokens |-> tokenize(input[1]),
                    ast |-> parse(input[1]),
                    value |-> Value(input[1], input[2]),
                    truth |-> eval_expr(input[1], input[2])]>>
    /\ UNCHANGED <<execute_vars, input>>

SpecEval == EvalInit /\ [][Evaluate]_vars

(***************************************************************************)
(* DSLValidator.lint_rules called on its own.  The rule sets are graphs    *)
(* of three nodes with every routing among them (cycles, several nodes     *)
(* routing into one cycle, dangling references, repeated ids, a dangling   *)
(* or absent meta.entry), the malformed rule sets given to execute, and    *)
(* action nodes with odd action lists.                                     *)
(***************************************************************************)
LintTargets == {Absent, "a", "b", "c", "ghost"}
LintIds == {<<"a", "b", "c">>, <<"a", "b", "a">>, <<"a", "a", "c">>}

GraphRuleSets ==
    {[meta |-> Field("entry", e),
      nodes |-> <<DecisionNode(ids[1], CondTrue, t, f, Absent),
                  ActionNode(ids[2], PyList(<<Abstain>>), n2),
                  ActionNode(ids[3], PyList(<<OrderTest>>), n3)>>] :
        ids \in LintIds, e \in {Absent, "b", "c", "ghost"},
        t \in LintTargets, f \in {Absent, "c"},
        n2 \in LintTargets, n3 \in LintTargets}

ActionRuleSets ==
    {[nodes |-> <<ActionNode("a", l, Absent)>>] :
        l \in {PyNone, PyList(<<>>), PyList(<<[type |-> "other"]>>),
               PyList(<<[reason |-> "none given"]>>),
               PyList(<<PyStr(<<"x">>)>>)}}

LintRuleSets == GraphRuleSets \cup MalformedRuleSets \cup ActionRuleSets

\* What the schema validation leaves in warnings: nothing, a diagnostic of
\* the schema, or the diagnostic of a failed validation.
SchemaOutcomes ==
    {<<>>,
     <<<<"SCHEMA_ERROR: ", "root", ": ", "'meta' is a required property">>>>,
     <<<<"SCHEMA_ERROR: Schema validation failed: ", "error">>>>}

\* The list without its repetitions.
RECURSIVE Distinct(_)
Distinct(list) ==
    IF list = <<>> THEN <<>>
    ELSE LET d == Distinct(SubSeq(list, 1, Len(list) - 1))
         IN  IF list[Len(list)] \in Range(d) THEN d
             ELSE Append(d, list[Len(list)])

\* The orders in which a set of the ids of the rule set may be iterated.
IdOrders(dsl_dict) ==
    LET nodes == Get(dsl_dict, "nodes", <<>>)
        with_id == SelectSeq(nodes, LAMBDA node : "id" \in DOMAIN node)
    IN  Orders(Distinct([i \in 1..Len(with_id) |-> with_id[i].id]))

LintInit ==
    /\ NoExecute
    /\ \E d \in LintRuleSets : input = <<d>>
    /\ output = <<>>

\* warnings = validator.lint_rules(dsl)
Lint ==
    /\ output = <<>>
    /\ \E schema_errors \in SchemaOutcomes, order \in IdOrders(input[1]) :
           output' = <<lint_rules(input[1], schema_errors, order)>>
    /\ UNCHANGED <<execute_vars, input>>

SpecLint == LintInit /\ [][Lint]_vars

(***************************************************************************)
(* lint_rules and then execute, called on the same rule set: the rule      *)
(* sets given to execute, and graphs of three nodes whose entry decides    *)
(* on the case.                                                            *)
(***************************************************************************)
WalkRuleSets ==
    {[meta |-> [profile |-> "test_profile", version |-> "1.0.0"]
                   @@ Field("entry", e),
      nodes |-> <<DecisionNode("a", CondXGt1, t, f, Absent),
                  ActionNode("b", PyList(<<Abstain>>), n2),
                  ActionNode("c", PyList(<<OrderTest>>), n3)>>] :
        e \in {Absent, "b", "c"}, t \in {"a", "b", "c"}, f \in {Absent, "c"},
        n2 \in {Absent, "a", "b", "c"}, n3 \in {Absent, "a", "b", "c"}}

LintExecuteInit ==
    /\ \E d \in SmallRuleSets \cup MalformedRuleSets \cup WalkRuleSets,
          c \in Cases :
           dsl = d /\ case = c /\ input = <<d>>
    /\ pc = "call"
    /\ interpreter = NewInterpreter
    /\ current_node = PyNone
    /\ iteration = 0
    /\ all_actions = <<>>
    /\ trace = <<>>
    /\ visited_nodes = {}
    /\ exit = "none"
    /\ clock = 0
    /\ results = <<>>
    /\ output = <<>>

\* warnings = lint_rules(dsl), then execute(dsl, case).
LintExecuteNext ==
    \/ Lint
    \/ output # <<>> /\ Enter
    \/ output # <<>> /\ BreakAtHead
    \/ output # <<>> /\ StepOn
    \/ output # <<>> /\ StepMissing
    \/ output # <<>> /\ StepHalt
    \/ output # <<>> /\ StepInterpreterError
    \/ output # <<>> /\ StepUnexpectedError
    \/ output # <<>> /\ Return

SpecLintExecute == LintExecuteInit /\ [][LintExecuteNext]_vars

(***************************************************************************)
(* Vocabulary of the properties.                                           *)
(***************************************************************************)
IsSafetyStop(entry) == entry.type = "safety_stop" /\ entry.node = "safety_stop"

\* The positions of the SafetyStop entries and of the Decision/Action
\* entries of a trace.
StopsOf(t) == {i \in 1..Len(t) : IsSafetyStop(t[i])}
VisitsOf(t) == {i \in 1..Len(t) : ~IsSafetyStop(t[i])}

HasStop(t, outcome) == \E i \in StopsOf(t) : t[i].outcome = outcome

IsPrefix(s1, s2) == Len(s1) <= Len(s2) /\ SubSeq(s2, 1, Len(s1)) = s1

\* sub occurs in text as a run of consecutive elements.
Contains(text, sub) ==
    \E i \in 0..(Len(text) - Len(sub)) : SubSeq(text, i + 1, i + Len(sub)) = sub

\* The structural contract of a node and of a rule set (spec section 3).
WellFormedNode(n) ==
    /\ "id" \in DOMAIN n
    /\ "type" \in DOMAIN n
    /\ n.type \in {"decision", "action"}
    /\ n.type = "decision" => "when" \in DOMAIN n /\ "actions" \notin DOMAIN n
    /\ n.type = "action" => "actions" \in DOMAIN n /\ "when" \notin DOMAIN n

NodesOf(d) == IF "nodes" \in DOMAIN d THEN d.nodes ELSE <<>>

BreaksContract(d) ==
    \/ \E i \in 1..Len(NodesOf(d)) : ~WellFormedNode(NodesOf(d)[i])
    \/ \E i, j \in 1..Len(NodesOf(d)) :
          /\ i < j
          /\ "id" \in DOMAIN NodesOf(d)[i] /\ "id" \in DOMAIN NodesOf(d)[j]
          /\ NodesOf(d)[i].id = NodesOf(d)[j].id

StructurallyValid(d) == NodesOf(d) # <<>> /\ ~BreaksContract(d)

\* meta.entry is given and no node carries that id.
EntryMissing(d) ==
    /\ "meta" \in DOMAIN d /\ "entry" \in DOMAIN d.meta
    /\ d.meta.entry # ""
    /\ \A i \in 1..Len(NodesOf(d)) : NodesOf(d)[i].id # d.meta.entry

Finished == pc \in {"returned", "raised"}

(***************************************************************************)
(* C1.  For every structurally valid rule set and every case, execute      *)
(* returns and raises no exception.  Stated as claimed; the code raises    *)
(* InterpreterError when meta.entry names no node (see C2).                *)
(***************************************************************************)
C1_ValidRuleSetNeverRaises == StructurallyValid(dsl) => pc # "raised"

(***************************************************************************)
(* C2.  If meta.entry names an id no node carries, execute does not raise: *)
(* it returns no action and a trace holding a SafetyStop(missing_node).    *)
(* Stated as claimed; the code raises at line 215.                         *)
(***************************************************************************)
C2_MissingEntryIsSafetyStop ==
    (StructurallyValid(dsl) /\ EntryMissing(dsl) /\ Finished) =>
        /\ pc = "returned"
        /\ all_actions = <<>>
        /\ HasStop(trace, <<"missing_node">>)

(***************************************************************************)
(* C3.  If any node, reachable or not, breaks the structural contract, or  *)
(* two nodes share an id, execute raises InterpreterError before any node  *)
(* is executed and returns neither actions nor trace.                      *)
(***************************************************************************)
C3_BrokenContractRaises ==
    (BreaksContract(dsl) /\ pc # "call") =>
        /\ pc = "raised"
        /\ results[Len(results)].exc = "InterpreterError"
        /\ \A i \in 1..Len(results) : results[i].exc # "none"
        /\ trace = <<>> /\ all_actions = <<>> /\ visited_nodes = {}

\* The broken node is one that no route from the entry reaches.
C3_Witness ==
    /\ pc = "raised"
    /\ Len(NodesOf(dsl)) = 2
    /\ dsl.nodes[1] = GoodA
    /\ ~WellFormedNode(dsl.nodes[2])
    /\ "entry" \notin DOMAIN dsl.meta

(***************************************************************************)
(* C4.  A trace holds at most max_iterations Decision/Action entries       *)
(* followed by at most one SafetyStop: never more than max_iterations + 1  *)
(* entries, never two SafetyStops.  Stated as claimed; the code appends    *)
(* max_iterations_exceeded after a stop made in the last iteration.        *)
(***************************************************************************)
C4_TraceShape ==
    /\ Cardinality(VisitsOf(trace)) <= max_iterations
    /\ Cardinality(StopsOf(trace)) <= 1
    /\ \A i \in StopsOf(trace) : i = Len(trace)
    /\ Len(trace) <= max_iterations + 1

(***************************************************************************)
(* C5.  When the walk reaches a node already visited, the node is not      *)
(* executed again, the walk halts and the last trace entry is              *)
(* SafetyStop(cycle_detected), whatever the length of the path before.     *)
(* Stated as claimed; it fails when the revisit falls in the last          *)
(* iteration.                                                              *)
(***************************************************************************)
C5_CycleStopIsLast ==
    (pc = "returned" /\ exit = "cycle_detected") =>
        /\ trace[Len(trace)].outcome = <<"cycle_detected">>
        /\ \A i, j \in VisitsOf(trace) : trace[i].node = trace[j].node => i = j

(***************************************************************************)
(* C6.  When the walk passes through more than max_iterations distinct     *)
(* nodes without failure, exactly the first max_iterations nodes are       *)
(* executed, the next one is not, and the last trace entry is              *)
(* SafetyStop(max_iterations_exceeded).                                    *)
(***************************************************************************)
\* The loop ran out with a node still to visit.
WalkGoesOn ==
    /\ exit = "exhausted"
    /\ current_node # PyNone
    /\ current_node.id \notin visited_nodes

C6_CapAfterMaxIterations ==
    (pc = "returned" /\ WalkGoesOn) =>
        /\ Len(trace) = max_iterations + 1
        /\ VisitsOf(trace) = 1..max_iterations
        /\ Cardinality({trace[i].node : i \in VisitsOf(trace)}) = max_iterations
        /\ \A i \in VisitsOf(trace) : trace[i].node # current_node.id
        /\ IsSafetyStop(trace[Len(trace)])
        /\ trace[Len(trace)].outcome = <<"max_iterations_exceeded">>

C6_Witness ==
    /\ pc = "returned" /\ WalkGoesOn
    /\ Len(dsl.nodes) = max_iterations + 1
    /\ current_node.id = ToString(max_iterations + 1)

(***************************************************************************)
(* C7.  When a visited node yields no next id, the trace holds no          *)
(* SafetyStop, for every number of nodes visited from 1 to max_iterations. *)
(* Stated as claimed; it fails when the halting node is the                *)
(* max_iterations-th.                                                      *)
(***************************************************************************)
C7_NaturalHaltHasNoStop ==
    (pc = "returned" /\ exit = "no_next") => StopsOf(trace) = {}

(***************************************************************************)
(* C8.  Two executions on the same rule set and case give the same action  *)
(* list and, the timestamps removed, the same trace.  (SpecTwice)          *)
(***************************************************************************)
StripTimestamps(r) ==
    IF r.exc # "none" THEN r
    ELSE [actions |-> r.actions,
          trace |-> [i \in 1..Len(r.trace) |-> Without(r.trace[i], "timestamp")]]

C8_Deterministic ==
    \A i, j \in 1..Len(results) :
        StripTimestamps(results[i]) = StripTimestamps(results[j])

\* Two finished calls whose traces differ, in their timestamps only.
C8_Witness ==
    /\ Len(results) = 2
    /\ results[1].exc = "none" /\ results[2].exc = "none"
    /\ results[1].actions # <<>>
    /\ Len(results[1].trace) >= 2
    /\ results[1].trace # results[2].trace

(***************************************************************************)
(* C9.  During one execution the action list and the trace only grow by    *)
(* appending, and what execute returns is the two lists as they then are:  *)
(* the entries and actions made before a SafetyStop are all in the output. *)
(***************************************************************************)
C9_AppendOnly ==
    [][/\ IsPrefix(trace, trace')
       /\ IsPrefix(all_actions, all_actions')
       /\ pc' = "returned" =>
            /\ results'[Len(results')].trace = trace'
            /\ results'[Len(results')].actions = all_actions']_vars

\* A returned walk that a SafetyStop ended after nodes gave entries and
\* actions.
C9_Witness ==
    /\ pc = "returned"
    /\ Len(trace) >= 3
    /\ IsSafetyStop(trace[Len(trace)])
    /\ all_actions # <<>>
    /\ results[1].actions = all_actions

(***************************************************************************)
(* C10.  If a Decision's condition fails to parse or evaluate, no Decision *)
(* entry is appended for the node, a SafetyStop is appended whose outcome  *)
(* starts with 'interpreter_error:' and contains every field path of the   *)
(* condition, and no further node is executed.                             *)
(***************************************************************************)
PathChars == Letters \cup Digits \cup {"_", "."}

Keywords == {<<"t", "r", "u", "e">>, <<"f", "a", "l", "s", "e">>,
             <<"n", "u", "l", "l">>, <<"a", "n", "d">>, <<"o", "r">>,
             <<"n", "o", "t">>}

\* The dotted field paths written in a condition: its maximal runs of
\* identifier characters and dots that start with a letter, keywords apart.
FieldPathsOf(text) ==
    {SubSeq(text, r[1], r[2]) :
        r \in {q \in (1..Len(text)) \X (1..Len(text)) :
                 /\ q[1] <= q[2]
                 /\ \A i \in q[1]..q[2] : text[i] \in PathChars
                 /\ text[q[1]] \in Letters
                 /\ q[1] > 1 => text[q[1] - 1] \notin PathChars
                 /\ q[2] < Len(text) => text[q[2] + 1] \notin PathChars
                 /\ SubSeq(text, q[1], q[2]) \notin Keywords}}

\* The walk stands at a Decision it tried and whose condition fails.
ConditionFailed ==
    /\ pc \in {"after_loop", "returned"}
    /\ current_node # PyNone
    /\ current_node.id \in visited_nodes
    /\ current_node.type = "decision"
    /\ eval_expr(current_node.when, case).exc # "none"

C10_ConditionFailureStops ==
    ConditionFailed =>
        /\ \A i \in VisitsOf(trace) : trace[i].node # current_node.id
        /\ \E i \in StopsOf(trace) :
              /\ trace[i].outcome[1] = "interpreter_error: "
              /\ \A path \in FieldPathsOf(current_node.when) :
                    Contains(trace[i].outcome, path)
              /\ \A j \in VisitsOf(trace) : j < i
        /\ Cardinality(VisitsOf(trace)) = Cardinality(visited_nodes) - 1

\* A dotted path in the condition of a node reached after another one.
C10_Witness ==
    /\ pc = "returned" /\ ConditionFailed
    /\ <<"q", ".", "r">> \in FieldPathsOf(current_node.when)
    /\ Len(trace) = 2
    /\ trace[2].outcome[1] = "interpreter_error: "

(***************************************************************************)
(* C11.  If the next id chosen by an executed node names no node of the    *)
(* rule set, the node's own trace entry (and, for an Action node, its      *)
(* actions) is appended first, then a SafetyStop(missing_node), and no     *)
(* further node is executed.                                               *)
(***************************************************************************)
\* The node about to run executes without error and routes to an id (a
\* non-empty string) that no node carries.
RoutesToMissing ==
    /\ AtNode
    /\ \E e \in Executed :
          /\ e.exc = "none" /\ e.actions.k = "list"
          /\ TruthyId(e.next_node)
          /\ \A i \in 1..Len(dsl.nodes) : dsl.nodes[i].id # e.next_node.id

C11_MissingNextStops ==
    [][/\ RoutesToMissing =>
            /\ Len(trace') = Len(trace) + 2
            /\ IsPrefix(trace, trace')
            /\ trace'[Len(trace) + 1].node = current_node.id
            /\ trace'[Len(trace) + 1].type = current_node.type
            /\ IsSafetyStop(trace'[Len(trace) + 2])
            /\ trace'[Len(trace) + 2].outcome = <<"missing_node">>
            /\ IF current_node.type = "action"
               THEN /\ trace'[Len(trace) + 1].actions = current_node.actions.items
                    /\ all_actions' = all_actions \o current_node.actions.items
               ELSE all_actions' = all_actions
            /\ pc' = "after_loop"
       /\ pc \in {"after_loop", "returned"} =>
            /\ VisitsOf(trace') = VisitsOf(trace)
            /\ all_actions' = all_actions]_vars

\* A Decision, then an Action whose next names no node: the Action's entry
\* and actions, then the SafetyStop.
C11_Witness ==
    /\ pc = "returned"
    /\ Len(trace) = 3
    /\ trace[1].type = "decision"
    /\ trace[2].type = "action" /\ trace[2].actions # <<>>
    /\ all_actions = trace[2].actions
    /\ IsSafetyStop(trace[3]) /\ trace[3].outcome = <<"missing_node">>

(***************************************************************************)
(* C12.  Every trace entry carries non-empty profile, version and          *)
(* rule_hash values, equal to meta.profile, meta.version and the canonical *)
(* hash of the rule set, and rule_hash is the same in all entries of one   *)
(* execution.  Stated as claimed; for a rule set whose meta gives no       *)
(* profile or version the entries carry ''.                                *)
(***************************************************************************)
MetaOf(d) == IF "meta" \in DOMAIN d THEN d.meta ELSE <<>>

C12_TraceMetadata ==
    \A i \in 1..Len(trace) :
        /\ trace[i].profile # "" /\ trace[i].version # ""
        /\ "profile" \in DOMAIN MetaOf(dsl) => trace[i].profile = dsl.meta.profile
        /\ "version" \in DOMAIN MetaOf(dsl) => trace[i].version = dsl.meta.version
        /\ trace[i].rule_hash = canonicalize_and_hash(Document(dsl))
        /\ trace[i].rule_hash = trace[1].rule_hash

(***************************************************************************)
(* C13.  At return, the action list is the concatenation, in trace order,  *)
(* of the actions lists of the Action entries of the trace, each list as   *)
(* the rule node declares it; Decision and SafetyStop entries contribute   *)
(* no action.                                                              *)
(***************************************************************************)
\* The actions the entries of a trace carry, entry after entry.
ActionsAlong(t) == Concat([i \in 1..Len(t) |-> t[i].actions])

C13_ActionsFollowTrace ==
    pc = "returned" =>
        /\ results[Len(results)].actions = ActionsAlong(results[Len(results)].trace)
        /\ \A i \in 1..Len(trace) :
              IF trace[i].type = "action"
              THEN \E n \in 1..Len(dsl.nodes) :
                      /\ dsl.nodes[n].id = trace[i].node
                      /\ trace[i].actions = dsl.nodes[n].actions.items
              ELSE trace[i].actions = <<>>

\* Two Action nodes in a row, the first declaring two different actions.
C13_Witness ==
    /\ pc = "returned"
    /\ Len(trace) >= 2
    /\ trace[1].type = "action" /\ trace[2].type = "action"
    /\ Len(all_actions) = 3
    /\ all_actions[1] # all_actions[2]
    /\ all_actions[2] # all_actions[3]

(***************************************************************************)
(* C14.  canonicalize_and_hash gives the same digest for two rule sets     *)
(* that differ only in the order of keys inside any mapping at any depth,  *)
(* lists keeping their order.  (SpecHash)                                  *)
(***************************************************************************)
\* The value a key has in a mapping.
ValueAt(pairs, key) ==
    pairs[CHOOSE i \in 1..Len(pairs) : pairs[i][1] = key][2]

\* Two documents are the same but for the order their mappings write
\* their keys in.
RECURSIVE SameButKeyOrder(_, _)
SameButKeyOrder(d1, d2) ==
    IF d1.j # d2.j THEN FALSE
    ELSE IF d1.j = "dict"
    THEN /\ Len(d1.pairs) = Len(d2.pairs)
         /\ {d1.pairs[i][1] : i \in 1..Len(d1.pairs)}
              = {d2.pairs[i][1] : i \in 1..Len(d2.pairs)}
         /\ \A i \in 1..Len(d1.pairs) :
               SameButKeyOrder(d1.pairs[i][2], ValueAt(d2.pairs, d1.pairs[i][1]))
    ELSE IF d1.j = "list"
    THEN /\ Len(d1.items) = Len(d2.items)
         /\ \A i \in 1..Len(d1.items) : SameButKeyOrder(d1.items[i], d2.items[i])
    ELSE d1 = d2

Hashed == output # <<>>

C14_HashIgnoresKeyOrder ==
    (Hashed /\ SameButKeyOrder(input[1], input[2])) => output[1] = output[2]

\* Two documents whose keys are written in different orders at the top, in
\* meta, in the node and in its action.
C14_Witness ==
    /\ Hashed
    /\ SameButKeyOrder(input[1], input[2])
    /\ input[1].pairs[1][1] # input[2].pairs[1][1]
    /\ ValueAt(input[1].pairs, KeyChars.meta) # ValueAt(input[2].pairs, KeyChars.meta)
    /\ LET n1 == ValueAt(input[1].pairs, KeyChars.nodes).items[1]
           n2 == ValueAt(input[2].pairs, KeyChars.nodes).items[1]
       IN  /\ n1.pairs[1][1] # n2.pairs[1][1]
           /\ ValueAt(n1.pairs, KeyChars.actions) # ValueAt(n2.pairs, KeyChars.actions)
    /\ output[1] = output[2]

(***************************************************************************)
(* C15.  Two rule sets that differ semantically (a node field or meta      *)
(* field added, removed or altered, or the order of a list such as nodes   *)
(* or actions changed) have different canonical forms and different        *)
(* rule_hash values.  (SpecHash)                                           *)
(***************************************************************************)
C15_HashTellsApart ==
    (Hashed /\ ~SameButKeyOrder(input[1], input[2])) =>
        /\ canonicalize_dict(input[1]) # canonicalize_dict(input[2])
        /\ output[1] # output[2]

\* Two documents that differ in the order of the actions of a node only,
\* two that differ in the order of the nodes, two that differ in a meta
\* value, and two of which one lacks a meta field.
ListsOf(d) == ValueAt(d.pairs, KeyChars.nodes)
MetaDocOf(d) == ValueAt(d.pairs, KeyChars.meta)

C15_Witness ==
    /\ Hashed
    /\ output[1] # output[2]
    /\ SameButKeyOrder(MetaDocOf(input[1]), MetaDocOf(input[2]))
    /\ Len(ListsOf(input[1]).items) = 1 /\ Len(ListsOf(input[2]).items) = 1
    /\ LET a1 == ValueAt(ListsOf(input[1]).items[1].pairs, KeyChars.actions)
           a2 == ValueAt(ListsOf(input[2]).items[1].pairs, KeyChars.actions)
       IN  /\ Len(a1.items) = 2 /\ Len(a2.items) = 2
           /\ SameButKeyOrder(a1.items[1], a2.items[2])
           /\ SameButKeyOrder(a1.items[2], a2.items[1])
           /\ ~SameButKeyOrder(a1.items[1], a2.items[1])

(***************************************************************************)
(* C16.  For a comparison with at least one null operand: == is true iff   *)
(* both operands are null, != is true iff not both are null, and each of   *)
(* >, >=, <, <= is false for every other operand value (number, string,    *)
(* bool, mapping) on either side, without raising.  (SpecEval)             *)
(***************************************************************************)
Evaluated == output # <<>>

\* The operands whose value is null: the literal and the field holding it.
NullOperands == {o \in Operands : Value(o, input[2]) = Ok(PyNone)}

NullPolicy(l, op, r) ==
    CASE op = "==" -> l \in NullOperands /\ r \in NullOperands
      [] op = "!=" -> ~(l \in NullOperands /\ r \in NullOperands)
      [] OTHER -> FALSE

C16_NullComparisons ==
    Evaluated =>
        \A l \in Operands, r \in Operands, op \in ComparisonOps :
            (input[1] = CmpText(l, op, r)
                /\ (l \in NullOperands \/ r \in NullOperands)) =>
                /\ output[1].value = Ok(PyBool(NullPolicy(l, op, r)))
                /\ output[1].truth = Ok(NullPolicy(l, op, r))

\* A mapping ordered against the field that holds null.
C16_Witness ==
    /\ Evaluated
    /\ <<"n">> \in NullOperands /\ NullText \in NullOperands
    /\ input[1] = CmpText(<<"m">>, ">=", <<"n">>)
    /\ output[1].truth = Ok(FALSE)

(***************************************************************************)
(* C17.  In 'a and b', when a is falsy b is not evaluated, and in          *)
(* 'a or b', when a is truthy b is not evaluated: a right operand whose    *)
(* field resolution would raise field-not-found causes no error in those   *)
(* cases.  (SpecEval)                                                      *)
(***************************************************************************)
\* The operands that evaluate on their own, by the truth of their value.
FalsyOperands ==
    {a \in LeftOperands : eval_expr(a, input[2]) = Ok(FALSE)}
TruthyOperands ==
    {a \in LeftOperands : eval_expr(a, input[2]) = Ok(TRUE)}

\* The operands whose field resolution raises field-not-found.
NotFoundOperands ==
    {b \in LeftOperands :
        Value(b, input[2]) = Raise("ParseError", <<"Field not found: ">> \o b)}

C18_DottedPath ==
    Evaluated =>
        \A p \in DottedPaths :
            input[1] = p =>
                /\ output[1].tokens =
                        Ok(<<Token("identifier", PyStr(p), 0),
                             Token("eof", PyNone, Len(p))>>)
                /\ output[1].value = get_field_value(input[2], p)

(***************************************************************************)
(* C19.  A single-quoted string literal in an expression is lexed as a     *)
(* string literal, so that for a field f holding a string, f == 's'        *)
(* evaluates to true iff f's value equals s, and a decision using such a   *)
(* condition routes without a safety stop.  (SpecEval)                     *)
(***************************************************************************)
C19_StringLiteral ==
    Evaluated =>
        \A str \in {<<"q">>, <<"x">>} :
            input[1] = CmpText(<<"s">>, "==", QuoteText(str)) =>
                output[1].truth = Ok(input[2].m["s"] = PyStr(str))

(***************************************************************************)
(* C20.  For a numeric field f and a number n, the expression              *)
(* 'not f > n' evaluates to true exactly when 'f > n' evaluates to false.  *)
(* (SpecEval)                                                              *)
(***************************************************************************)
C20_NotOfComparison ==
    Evaluated =>
        \A f \in NumberFields, n \in NumberTexts :
            input[1] = NotText(CmpText(f, ">", n)) =>
                output[1].truth =
                    Ok(eval_expr(CmpText(f, ">", n), input[2]) = Ok(FALSE))

(***************************************************************************)
(* C21.  eval_expr applied to an expression that is a single literal or a  *)
(* single field reference returns that value itself: 'null' yields null,   *)
(* '42' yields the number 42, and a field holding a string yields that     *)
(* string.  (SpecEval)                                                     *)
(***************************************************************************)
\* The expressions made of one literal or one field reference.
SingleOperands == Operands \cup {<<"4", "2">>, <<"e">>, <<"o">>, <<"z">>, <<"c">>}

\* The Python value eval_expr returned.
Returned == PyBool(output[1].truth.val)

C21_ReturnsTheValue ==
    Evaluated =>
        \A a \in SingleOperands :
            input[1] = a =>
                /\ output[1].truth.exc = "none"
                /\ PyEq(Returned, output[1].value.val)
                /\ Returned.k = "null" <=> output[1].value.val.k = "null"

(***************************************************************************)
(* C22.  lint_rules' checks never raise: for every rule set, including     *)
(* ones with cycles, dangling references, duplicate ids and several nodes  *)
(* pointing into the same cycle, the linter returns a list of              *)
(* diagnostics.  (SpecLint)                                                *)
(***************************************************************************)
Linted == output # <<>>

C22_LintNeverRaises == Linted => output[1].exc = "none"

(***************************************************************************)
(* C23.  The linter reports UNREACHABLE_NODE for exactly the nodes that    *)
(* are not reachable from the entry (meta.entry if present, otherwise the  *)
(* first node) by following next, goto_true and goto_false edges; no node  *)
(* reachable from the entry is reported.  (SpecLint)                       *)
(***************************************************************************)
LintedNodes == Get(input[1], "nodes", <<>>)
LintedMeta == Get(input[1], "meta", <<>>)

\* The ids the edges of the nodes called id lead to.
TargetsOf(id) ==
    UNION {Range(Edges(LintedNodes[i])) :
              i \in {j \in 1..Len(LintedNodes) :
                         "id" \in DOMAIN LintedNodes[j]
                         /\ LintedNodes[j].id = id}}

\* The ids reached from the ids of S by any number of edges.
RECURSIVE ReachedFrom(_)
ReachedFrom(S) ==
    LET more == S \cup UNION {TargetsOf(id) : id \in S}
    IN  IF more = S THEN S ELSE ReachedFrom(more)

\* The entry: meta.entry if present, otherwise the first node.
EntryIds ==
    IF "entry" \in DOMAIN LintedMeta THEN {LintedMeta.entry}
    ELSE IF LintedNodes # <<>> /\ "id" \in DOMAIN LintedNodes[1]
    THEN {LintedNodes[1].id}
    ELSE {}

\* The diagnostics of a tag (the first piece of the message).
Diagnostics(tag) ==
    IF output[1].exc = "none"
    THEN SelectSeq(output[1].val, LAMBDA w : w[1] = tag)
    ELSE <<>>

ReportedUnreachable ==
    {w[2] : w \in Range(Diagnostics("UNREACHABLE_NODE: Node '"))}

C23_UnreachableExact ==
    Linted =>
        ReportedUnreachable = IdsOf(LintedNodes) \ ReachedFrom(EntryIds)

(***************************************************************************)
(* C24.  The linter emits a MISSING_NODE diagnostic for meta.entry and     *)
(* for each next, goto_true or goto_false whose value is not the id of a   *)
(* node of the rule set, and emits none when every reference resolves.     *)
(* (SpecLint)                                                              *)
(***************************************************************************)
RoutingKeys == {"next", "goto_true", "goto_false"}

\* The references <<node position, key>> whose value is no node's id.
DanglingReferences ==
    {r \in (1..Len(LintedNodes)) \X RoutingKeys :
        /\ r[2] \in DOMAIN LintedNodes[r[1]]
        /\ LintedNodes[r[1]][r[2]] \notin IdsOf(LintedNodes)}

DanglingEntry ==
    "entry" \in DOMAIN LintedMeta /\ LintedMeta.entry \notin IdsOf(LintedNodes)

MissingNodeDiagnostics ==
    Diagnostics("MISSING_NODE: Entry node '")
        \o Diagnostics("MISSING_NODE: Node '")

C24_MissingNodeExact ==
    Linted =>
        /\ Len(MissingNodeDiagnostics) =
               Cardinality(DanglingReferences) + (IF DanglingEntry THEN 1 ELSE 0)
        /\ DanglingEntry =>
               \E w \in Range(MissingNodeDiagnostics) : w[2] = LintedMeta.entry
        /\ \A r \in DanglingReferences :
               \E w \in Range(MissingNodeDiagnostics) :
                   /\ w[2] = IdOrUnknown(LintedNodes[r[1]])
                   /\ w[4] = r[2]
                   /\ w[6] = LintedNodes[r[1]][r[2]]

(***************************************************************************)
(* C25.  The linter emits a DUPLICATE_ID diagnostic iff some node id       *)
(* occurs more than once in the node list, one diagnostic for each         *)
(* occurrence after the first.  (SpecLint)                                 *)
(***************************************************************************)
\* The positions of the nodes whose id an earlier node has.
LaterOccurrences ==
    {i \in 1..Len(LintedNodes) :
        /\ "id" \in DOMAIN LintedNodes[i]
        /\ \E j \in 1..(i - 1) :
               /\ "id" \in DOMAIN LintedNodes[j]
               /\ LintedNodes[j].id = LintedNodes[i].id}

DuplicateIdDiagnostics == Diagnostics("DUPLICATE_ID: Duplicate node ID '")

C25_DuplicateIdExact ==
    Linted =>
        /\ Len(DuplicateIdDiagnostics) = Cardinality(LaterOccurrences)
        /\ \A i \in LaterOccurrences :
               \E w \in Range(DuplicateIdDiagnostics) : w[2] = LintedNodes[i].id

(***************************************************************************)
(* C26.  execute and the expression evaluator leave the rule set and the   *)
(* case record unchanged: after execute returns, normally, with a safety   *)
(* stop or with a pre-flight error, both inputs equal their values before  *)
(* the call.  Stated of every step of execute, which gives it of the       *)
(* whole call.  (Spec)                                                     *)
(***************************************************************************)
C26_InputsUnchanged == [][dsl' = dsl /\ case' = case]_vars

\* A call that gathered the actions of two action nodes, evaluated no
\* further node because of a cycle, and returned.
C26_Witness ==
    /\ pc = "returned"
    /\ HasStop(trace, <<"cycle_detected">>)
    /\ Len(trace) = 3
    /\ trace[1].type = "action" /\ trace[2].type = "action"
    /\ Len(all_actions) >= 2

(***************************************************************************)
(* C27.  After a Decision evaluates, the next id is goto_true when the     *)
(* outcome is true and goto_true is present, goto_false when the outcome   *)
(* is false and goto_false is present, otherwise next when present,        *)
(* otherwise none (natural halt); the branch opposite to the outcome is    *)
(* never followed.  (Spec)                                                 *)
(***************************************************************************)
\* The node about to run is a decision whose condition evaluates.
DecisionEvaluates ==
    /\ AtNode /\ current_node.type = "decision"
    /\ eval_expr(current_node.when, case).exc = "none"

\* The next id of the claim; Absent for none.
ChosenId(node, outcome) ==
    IF outcome /\ "goto_true" \in DOMAIN node THEN node.goto_true
    ELSE IF ~outcome /\ "goto_false" \in DOMAIN node THEN node.goto_false
    ELSE IF "next" \in DOMAIN node THEN node.next
    ELSE Absent

\* The first node of the rule set with the id.
NodeCalled(id) ==
    dsl.nodes[CHOOSE i \in 1..Len(dsl.nodes) :
                 /\ dsl.nodes[i].id = id
                 /\ \A j \in 1..(i - 1) : dsl.nodes[j].id # id]

C27_DecisionRouting ==
    [][DecisionEvaluates =>
          LET outcome == eval_expr(current_node.when, case).val
              chosen == ChosenId(current_node, outcome)
              entry == trace'[Len(trace) + 1]
          IN  /\ entry.node = current_node.id
              /\ entry.outcome = IF outcome THEN <<"true">> ELSE <<"false">>
              /\ IF chosen = Absent
                 THEN /\ trace' = Append(trace, entry)
                      /\ pc' = "after_loop" /\ exit' = "no_next"
                 ELSE IF chosen \in IdsOf(dsl.nodes)
                 THEN /\ trace' = Append(trace, entry)
                      /\ current_node' = NodeCalled(chosen)
                 ELSE /\ Len(trace') = Len(trace) + 2
                      /\ trace'[Len(trace) + 2].outcome = <<"missing_node">>
      ]_vars

\* A decision that came out true, has a goto_false and neither goto_true
\* nor next: the run halted after it without following goto_false.
C27_Witness ==
    /\ pc = "returned"
    /\ Len(trace) = 1
    /\ trace[1].type = "decision" /\ trace[1].outcome = <<"true">>
    /\ trace[1].node = dsl.nodes[1].id
    /\ "goto_false" \in DOMAIN dsl.nodes[1]
    /\ dsl.nodes[1].goto_false \in IdsOf(dsl.nodes)
    /\ "goto_true" \notin DOMAIN dsl.nodes[1]
    /\ "next" \notin DOMAIN dsl.nodes[1]

(***************************************************************************)
(* C28.  The sequence of node ids of the Decision/Action entries of a      *)
(* trace is a path of the rule graph: it starts at the entry node          *)
(* (meta.entry if present, otherwise the first node), and each following   *)
(* id is the routing target chosen by the node before it.  Stated of each  *)
(* entry as it is appended; the trace only grows by appending (C9).        *)
(* (Spec)                                                                  *)
(***************************************************************************)
\* The id of the entry node; a meta.entry of '' holds no id.
EntryId ==
    IF "meta" \in DOMAIN dsl /\ HasEntry(dsl.meta) THEN dsl.meta.entry
    ELSE dsl.nodes[1].id

\* The routing target the node chose when it left the trace entry.
RoutedId(node, entry) ==
    IF node.type = "decision"
    THEN ChosenId(node, entry.outcome = <<"true">>)
    ELSE IF "next" \in DOMAIN node THEN node.next ELSE Absent

C28_TraceIsPath ==
    [][(Len(trace') > Len(trace) /\ ~IsSafetyStop(trace'[Len(trace) + 1])) =>
          LET new == trace'[Len(trace) + 1]
          IN  IF trace = <<>> THEN new.node = EntryId
              ELSE LET last == trace[Len(trace)]
                   IN  /\ ~IsSafetyStop(last)
                       /\ new.node = RoutedId(NodeCalled(last.node), last)
      ]_vars

\* A run that started at meta.entry, the second node, and went from it to
\* the first.
C28_Witness ==
    /\ pc = "returned"
    /\ "meta" \in DOMAIN dsl /\ "entry" \in DOMAIN dsl.meta
    /\ dsl.meta.entry = dsl.nodes[2].id
    /\ Len(trace) >= 2
    /\ trace[1].node = dsl.nodes[2].id
    /\ trace[2].node = dsl.nodes[1].id

(***************************************************************************)
(* C29.  Truthiness, as used by not, and, or and the condition's truth     *)
(* value, is false for null and for false and true for every other value;  *)
(* in particular the number 0, an empty string and an empty mapping are    *)
(* truthy, so 'not f' is false when f holds 0.  (SpecEval)                 *)
(***************************************************************************)
\* The truthiness rule of the claim.
TrueUnlessNullOrFalse(v) == v.k # "null" /\ v # PyBool(FALSE)

C29_Truthiness ==
    Evaluated =>
        \A a \in ValueFields :
            LET v == Value(a, input[2]).val
            IN  /\ input[1] = a =>
                       output[1].truth = Ok(TrueUnlessNullOrFalse(v))
                /\ input[1] = NotText(a) =>
                       output[1].truth = Ok(~TrueUnlessNullOrFalse(v))
                /\ input[1] = AndText(a, <<"b">>) =>
                       output[1].truth = Ok(TrueUnlessNullOrFalse(v))
                /\ input[1] = OrText(a, <<"c">>) =>
                       output[1].truth = Ok(TrueUnlessNullOrFalse(v))

(***************************************************************************)
(* C30.  An ordering comparison (>, >=, <, <=) whose two operands are both *)
(* strings is a type error: evaluation fails with an evaluation error      *)
(* instead of returning a boolean.  (SpecEval)                             *)
(***************************************************************************)
StringOrderings ==
    {CmpText(l, op, r) :
       l \in StringFields, op \in OrderingOps, r \in StringFields}

C30_StringOrderingIsTypeError ==
    (Evaluated /\ input[1] \in StringOrderings) =>
        /\ output[1].value.exc # "none"
        /\ output[1].truth.exc # "none"

(***************************************************************************)
(* C31.  For two non-null operands of different kinds (bool against        *)
(* integer, string against number, bool against string), == evaluates to   *)
(* false and != to true, without raising; in particular 'f == 1' is false  *)
(* when f holds the boolean true.  (SpecEval)                              *)
(***************************************************************************)
\* The kind of a value, integer and real being the two kinds of number.
KindOf(v) == IF v.k \in {"int", "float"} THEN "number" ELSE v.k

DifferentKinds(a, b) ==
    \/ {a.k, b.k} = {"bool", "int"}
    \/ {KindOf(a), KindOf(b)} = {"str", "number"}
    \/ {a.k, b.k} = {"bool", "str"}

C31_MixedKindEquality ==
    Evaluated =>
        \A l \in Operands, r \in Operands :
            LET a == Value(l, input[2])
                b == Value(r, input[2])
            IN  (a.exc = "none" /\ b.exc = "none"
                 /\ DifferentKinds(a.val, b.val)) =>
                    /\ input[1] = CmpText(l, "==", r) =>
                           /\ output[1].value = Ok(PyBool(FALSE))
                           /\ output[1].truth = Ok(FALSE)
                    /\ input[1] = CmpText(l, "!=", r) =>
                           /\ output[1].value = Ok(PyBool(TRUE))
                           /\ output[1].truth = Ok(TRUE)

(***************************************************************************)
(* C32.  The parser builds the AST by the precedence not (4) >             *)
(* comparison (3) > and (2) > or (1), with left-associative infix          *)
(* operators: 'a or b and c' is Or(a, And(b, c)), 'a and b and c' is       *)
(* And(And(a, b), c), 'a == b == c' is Cmp(Cmp(a, b), c), and 'not a > b'  *)
(* is Cmp(>, Not(a), b).  (SpecEval)                                       *)
(***************************************************************************)
\* The precedence the claim gives to an infix operator.
Rank(op) == IF op = "or" THEN 1 ELSE IF op = "and" THEN 2 ELSE 3

InfixNode(op, l, r) ==
    IF op = "and" THEN AndNode(l, r)
    ELSE IF op = "or" THEN OrNode(l, r)
    ELSE ComparisonNode(l, op, r)

\* The tree of 'x op1 y op2 z': the operator that binds tighter takes y,
\* and between two of the same precedence the left one does.
ChainTree(x, op1, y, op2, z) ==
    IF Rank(op2) > Rank(op1)
    THEN InfixNode(op1, FieldNode(x), InfixNode(op2, FieldNode(y), FieldNode(z)))
    ELSE InfixNode(op2, InfixNode(op1, FieldNode(x), FieldNode(y)), FieldNode(z))

TokensOfType(tokens, type) == {i \in 1..Len(tokens) : tokens[i].type = type}

C33_OnlyWholeExpressionsParse ==
    Evaluated =>
        /\ input[1] \in BrokenExpressions =>
               /\ output[1].ast.exc = "ParseError"
               /\ "ast" \notin DOMAIN output[1].ast
        /\ output[1].ast.exc = "none" =>
               /\ output[1].tokens.exc = "none"
               /\ Len(output[1].tokens.val) > 1
               /\ Cardinality(TokensOfType(output[1].tokens.val, "(")) =
                      Cardinality(TokensOfType(output[1].tokens.val, ")"))

C33_Witness ==
    /\ Evaluated
    /\ input[1] = CmpText(<<"i">>, ">", <<"1">>) \o <<")">>
    /\ output[1].tokens.exc = "none"
    /\ output[1].ast.exc = "ParseError"

(***************************************************************************)
(* C34.  The linter emits at least one CYCLE_DETECTED diagnostic iff the   *)
(* graph of next, goto_true and goto_false edges contains a directed       *)
(* cycle, and the path it reports is a real cycle: its first and last ids  *)
(* are equal and every consecutive pair of ids is an edge of the graph.    *)
(* (SpecLint)                                                              *)
(***************************************************************************)
\* Some id leads back to itself by one or more edges.
HasDirectedCycle ==
    \E id \in IdsOf(LintedNodes) : id \in ReachedFrom(TargetsOf(id))

CycleDiagnostics == Diagnostics("CYCLE_DETECTED: Cycle found: ")

\* The ids of a reported path: the pieces between the arrows.
PathOf(w) == [i \in 1..(Len(w) \div 2) |-> w[2 * i]]

IsRealCycle(path) ==
    /\ Len(path) >= 2
    /\ path[1] = path[Len(path)]
    /\ \A i \in 1..(Len(path) - 1) : path[i + 1] \in TargetsOf(path[i])

C34_CycleDiagnosticsExact ==
    Linted =>
        /\ (CycleDiagnostics # <<>>) <=> HasDirectedCycle
        /\ \A w \in Range(CycleDiagnostics) : IsRealCycle(PathOf(w))

(***************************************************************************)
(* C35.  An Action node whose actions list is empty violates the node's    *)
(* structural contract, so execute rejects the rule set with a fatal       *)
(* InterpreterError at pre-flight instead of executing the node.  (Spec)   *)
(***************************************************************************)
HasEmptyActions(d) ==
    \E i \in 1..Len(NodesOf(d)) :
        /\ "type" \in DOMAIN NodesOf(d)[i]
        /\ NodesOf(d)[i].type = "action"
        /\ "actions" \in DOMAIN NodesOf(d)[i]
        /\ NodesOf(d)[i].actions = PyList(<<>>)

C35_EmptyActionsRejected ==
    (Finished /\ HasEmptyActions(dsl)) =>
        /\ pc = "raised"
        /\ results[Len(results)].exc = "InterpreterError"
        /\ trace = <<>>

(***************************************************************************)
(* C36.  If the linter reports no CYCLE_DETECTED diagnostic for a rule set *)
(* that passes pre-flight, then no execution of that rule set, on any      *)
(* case, emits a SafetyStop(cycle_detected): every cycle the interpreter   *)
(* can walk into is a cycle the linter finds.  (SpecLintExecute)           *)
(***************************************************************************)
C36_WalkedCyclesAreLinted ==
    (Linted /\ CycleDiagnostics = <<>>) =>
        ~HasStop(trace, <<"cycle_detected">>)

(***************************************************************************)
(* C37.  For a rule set that passes pre-flight and whose entry exists, no  *)
(* node that the linter reports as UNREACHABLE_NODE ever appears as a      *)
(* Decision or Action entry in the trace of any execution on any case.     *)
(* (SpecLintExecute)                                                       *)
(***************************************************************************)
C37_UnreachableNeverExecuted ==
    Linted =>
        \A i \in VisitsOf(trace) : trace[i].node \notin ReportedUnreachable

C37_Witness ==
    /\ Linted
    /\ pc = "returned"
    /\ ReportedUnreachable = {"c"}
    /\ Cardinality(VisitsOf(trace)) = 2

(***************************************************************************)
(* C38.  Every rule set that execute rejects at pre-flight with an         *)
(* InterpreterError (missing id, missing or unknown type, Decision without *)
(* when or with actions, Action without actions or with when, duplicate    *)
(* id) gets at least one diagnostic from the linter's own checks           *)
(* (DUPLICATE_ID, STRUCTURE_ERROR or MISSING_FIELD), the schema check      *)
(* aside.  (SpecLintExecute)                                               *)
(***************************************************************************)
\* The InterpreterError of the validation loop of execute, told from the
\* errors of an empty node list and of a dangling entry by its message.
RejectedAtPreflight ==
    /\ pc = "raised"
    /\ results[Len(results)].exc = "InterpreterError"
    /\ results[Len(results)].msg[1] \in
           {"Node missing required 'id' field", "Node ", "Decision node ",
            "Action node ", "Duplicate node ID: "}

OwnTags ==
    {"DUPLICATE_ID: Duplicate node ID '", "STRUCTURE_ERROR: Decision node '",
     "STRUCTURE_ERROR: Action node '", "MISSING_FIELD: Decision node '",
     "MISSING_FIELD: Action node '"}

OwnDiagnostics ==
    IF output[1].exc = "none"
    THEN SelectSeq(output[1].val, LAMBDA w : w[1] \in OwnTags)
    ELSE <<>>

C38_RejectedRuleSetsAreLinted ==
    (Linted /\ RejectedAtPreflight) => OwnDiagnostics # <<>>

====
